---- MODULE Spec2Model ----
(***************************************************************************)
(* notion-time-blocks: the scheduled ("create") mode of the tool.          *)
(*                                                                         *)
(* Templates are read from the saved template file, sorted, optionally     *)
(* filtered by their Day property, and one page per surviving template is  *)
(* created in the time blocks database with its date properties moved to   *)
(* the target date.                                                        *)
(*                                                                         *)
(* Time is counted in milliseconds.  The local time zone of the machine is *)
(* a fixed offset from UTC (tzOffset): daylight-saving transitions are not *)
(* modelled.  A moment is [valid, ms, off]: the instant ms (UTC epoch      *)
(* milliseconds) shown with the UTC offset off, so its wall-clock fields   *)
(* are those of ms + off.                                                  *)
(***************************************************************************)
EXTENDS Integers, Sequences, FiniteSets, TLC

VARIABLES
    pc,                \* where the process is
    argv,              \* the command line: [date, day, init, purge, confirm]
    tzOffset,          \* UTC offset of the local time zone, ms
    now,               \* the clock when the process starts, ms
    templates,         \* savedTemplates.templates
    schema,            \* properties of the time blocks database, as the store holds them
    targetDate,        \* moment
    dayFilter,         \* string, "" when the filter is off
    referenceDate,     \* moment
    sortedTemplates,
    templatesToCreate,
    idx,               \* position of the for loop in templatesToCreate
    created,
    calls,             \* requests sent to the remote store, in order, with their outcome
    log,               \* warn, info and error log events, in order
    exitCode,          \* -1 while running
    out,               \* result holder of the function-level specifications
    database,          \* pages of the time blocks database, as the store holds them
    allPages,          \* purge mode: what getAllPages returned
    pages,             \* purge mode: the pages selected for deletion
    deleted,
    failed,
    store,             \* getAllPages: the responses of the store, by cursor
    hasMore,           \* getAllPages: hasMore
    startCursor,       \* getAllPages: startCursor, 0 for undefined
    fetched,           \* getAllPages: its local array pages
    queries            \* getAllPages: the start_cursor of each query sent, in order

purgeVars == <<database, allPages, pages, deleted, failed>>

queryVars == <<store, hasMore, startCursor, fetched, queries>>

vars == <<pc, argv, tzOffset, now, templates, schema, targetDate, dayFilter,
          referenceDate, sortedTemplates, templatesToCreate, idx, created,
          calls, log, exitCode, out, purgeVars, queryVars>>

-----------------------------------------------------------------------------
(* Bounds *)

MaxDay == 3

MaxTemplates == 2

MaxSortLen == 3

MaxPages == 3

MaxResultPages == 3

MaxQueries == 4

-----------------------------------------------------------------------------
(* Time *)

MsPerSecond == 10 * 100
MsPerMinute == 60 * MsPerSecond
MsPerHour == 60 * MsPerMinute
MsPerDay == 24 * MsPerHour

TimeOfDay(h, m, s, ms) == h * MsPerHour + m * MsPerMinute + s * MsPerSecond + ms

\* x / y rounded toward zero (moment's absFloor)
absFloor(x, y) == IF x >= 0 THEN x \div y ELSE -((-x) \div y)

(* Date strings as they stand in a template or in a request:               *)
(*   null; "YYYY-MM-DDTHH:mm:ss.SSS+hh:mm" (an instant, v its epoch ms);   *)
(*   "YYYY-MM-DD" (a calendar day, v its day number).                      *)
Null == [k |-> "null", v |-> 0]
DateTimeStr(ms) == [k |-> "datetime", v |-> ms]
DateOnlyStr(d) == [k |-> "date", v |-> d]

InvalidMoment == [valid |-> FALSE, ms |-> 0, off |-> 0]

\* moment(string): the instant, in local mode; a date-only string is local midnight
moment(s) ==
    CASE s.k = "datetime" -> [valid |-> TRUE, ms |-> s.v, off |-> tzOffset]
      [] s.k = "date" -> [valid |-> TRUE, ms |-> s.v * MsPerDay - tzOffset, off |-> tzOffset]
      [] OTHER -> InvalidMoment

\* new Date(string).getTime(): a date-only string is UTC midnight
DateParse(s) ==
    CASE s.k = "datetime" -> s.v
      [] s.k = "date" -> s.v * MsPerDay
      [] OTHER -> 0

wall(m) == m.ms + m.off

hour(m) == (wall(m) % MsPerDay) \div MsPerHour
minute(m) == (wall(m) % MsPerHour) \div MsPerMinute
second(m) == (wall(m) % MsPerMinute) \div MsPerSecond
millisecond(m) == wall(m) % MsPerSecond

startOfDay(m) == IF m.valid THEN [m EXCEPT !.ms = @ - (wall(m) % MsPerDay)] ELSE m

\* a.diff(b, 'days') for two valid moments
diffDays(a, b) == absFloor(wall(a) - wall(b), MsPerDay)

addDays(m, n) == [m EXCEPT !.ms = @ + n * MsPerDay]

setHour(m, h) == [m EXCEPT !.ms = @ + (h - hour(m)) * MsPerHour]
setMinute(m, x) == [m EXCEPT !.ms = @ + (x - minute(m)) * MsPerMinute]
setSecond(m, x) == [m EXCEPT !.ms = @ + (x - second(m)) * MsPerSecond]
setMillisecond(m, x) == [m EXCEPT !.ms = @ + (x - millisecond(m))]

isBefore(a, b) == a.valid /\ b.valid /\ a.ms < b.ms
isSameOrAfter(a, b) == a.valid /\ b.valid /\ a.ms >= b.ms

\* m.utc(true): switch to UTC keeping the wall-clock fields
utcKeepLocalTime(m) == IF m.valid THEN [valid |-> TRUE, ms |-> wall(m), off |-> 0] ELSE m

\* m.toISOString(): the UTC fields of the instant, "...Z"; null for an invalid moment
toISOString(m) == IF m.valid THEN DateTimeStr(m.ms) ELSE Null

-----------------------------------------------------------------------------
(* combineDateTimeWithReference.                                            *)
(* For an invalid templateDate (moment(null)) diff and the getters return   *)
(* NaN, and add(NaN, 'days') and the setters called with NaN change         *)
(* nothing: the result is the start of the target day, a valid moment.      *)

combineDateTimeWithReference_NoOffset(templateDate, target, reference) ==
    IF ~templateDate.valid THEN startOfDay(target)
    ELSE setMillisecond(setSecond(setMinute(setHour(startOfDay(target),
             hour(templateDate)), minute(templateDate)), second(templateDate)),
             millisecond(templateDate))

combineDateTimeWithReference_NoMinutes(templateDate, target, reference) ==
    IF ~templateDate.valid THEN startOfDay(target)
    ELSE LET dayOffset == diffDays(startOfDay(templateDate), startOfDay(reference))
         IN setHour(addDays(startOfDay(target), dayOffset), hour(templateDate))

combineDateTimeWithReference(templateDate, target, reference) ==
    IF ~templateDate.valid THEN startOfDay(target)
    ELSE LET templateDay == startOfDay(templateDate)
             refDay == startOfDay(reference)
             targetDay == startOfDay(target)
             dayOffset == diffDays(templateDay, refDay)
         IN setMillisecond(setSecond(setMinute(setHour(addDays(targetDay, dayOffset),
                hour(templateDate)), minute(templateDate)), second(templateDate)),
                millisecond(templateDate))

-----------------------------------------------------------------------------
(* Strings.  The strings of the model are the ones listed here; toLowerCase *)
(* and trim are tabulated over them.                                        *)

toLowerCase(s) ==
    CASE s = "Day" -> "day"
      [] s = "DAY" -> "day"
      [] s = "Name" -> "name"
      [] s = "When" -> "when"
      [] s = "Due" -> "due"
      [] s = "Monday" -> "monday"
      [] s = "MONDAY" -> "monday"
      [] s = " Monday " -> " monday "
      [] s = " MONDAY " -> " monday "
      [] s = "Monday " -> "monday "
      [] s = "Tuesday" -> "tuesday"
      [] s = "Friday" -> "friday"
      [] s = "FRIDAY" -> "friday"
      [] s = "Default" -> "default"
      [] OTHER -> s

trim(s) ==
    CASE s = " Monday " -> "Monday"
      [] s = " monday " -> "monday"
      [] s = " MONDAY " -> "MONDAY"
      [] s = "Monday " -> "Monday"
      [] s = "monday " -> "monday"
      [] OTHER -> s

-----------------------------------------------------------------------------
(* Template properties, as the Notion API returns them and init mode saves  *)
(* them.  A property is [key, type, date, items, val]:                      *)
(*   date  = [present, start, end] (present = FALSE: "date": null)          *)
(*   items = the select option (none or one), the multi_select options, the *)
(*           relation / people references or the files                      *)
(*   val   = the scalar or text content                                     *)
(* An item is [name, id, color, type, url]; "" stands for an absent field.  *)

NoDate == [present |-> FALSE, start |-> Null, end |-> Null]
Item(name, id, color, type, url) ==
    [name |-> name, id |-> id, color |-> color, type |-> type, url |-> url]
Option(name, id, color) == Item(name, id, color, "", "")
\* the option sent as the template holds it
OnlyName_Whole(it) == it
OnlyName(it) == Item(it.name, "", "", "", "")
OnlyId(it) == Item("", it.id, "", "", "")

Prop(key, type, val) ==
    [key |-> key, type |-> type, date |-> NoDate, items |-> <<>>, val |-> val]
DateProp(key, start, end) ==
    [key |-> key, type |-> "date",
     date |-> [present |-> TRUE, start |-> start, end |-> end],
     items |-> <<>>, val |-> ""]
ItemsProp(key, type, items) ==
    [key |-> key, type |-> type, date |-> NoDate, items |-> items, val |-> ""]

ReadOnlyTypes ==
    {"formula", "rollup", "created_time", "created_by", "last_edited_time",
     "last_edited_by"}

SupportedTypes ==
    {"date", "title", "rich_text", "number", "select", "multi_select", "checkbox",
     "url", "email", "phone_number", "relation", "people", "files", "status"}

(* An entry of the record sent to createPage:                              *)
(*   [key, tag, start, end, time_zone, items, val]                          *)
Entry(key, tag, items, val) ==
    [key |-> key, tag |-> tag, start |-> Null, end |-> Null, time_zone |-> "",
     items |-> items, val |-> val]

MapItems(items, F(_)) == [i \in 1..Len(items) |-> F(items[i])]

\* files: an external file keeps its name and url, any other file is sent as it is
ProjectFile(file) ==
    IF file.type = "external" THEN Item(file.name, "", "", "", file.url) ELSE file

\* select / status: { name } when an option with a name is chosen, else null
ChosenName(items) ==
    IF Len(items) > 0 /\ items[1].name # "" THEN <<OnlyName(items[1])>> ELSE <<>>

newStartOf(p, target, reference) ==
    combineDateTimeWithReference(moment(p.date.start), target, reference)
newEndOf(p, target, reference) ==
    combineDateTimeWithReference(moment(p.date.end), target, reference)

\* the date branch: is the recalculated range refused?
InvalidRange(p, target, reference) ==
    isSameOrAfter(newStartOf(p, target, reference), newEndOf(p, target, reference))

(* One iteration of the loop of updatePropertiesForDate:                   *)
(* [emit, entry, warn, stop]                                               *)
Skipped(p) == [emit |-> FALSE, entry |-> Entry(p.key, "", <<>>, ""), warn |-> FALSE, stop |-> FALSE]
Emitted(e) == [emit |-> TRUE, entry |-> e, warn |-> FALSE, stop |-> FALSE]

\* the date branch with "break" in place of "continue"
ProjectDate_Break(p, target, reference) ==
    IF InvalidRange(p, target, reference)
    THEN [Skipped(p) EXCEPT !.warn = TRUE, !.stop = TRUE]
    ELSE Emitted([key |-> p.key, tag |-> "date",
                  start |-> toISOString(utcKeepLocalTime(newStartOf(p, target, reference))),
                  end |-> toISOString(utcKeepLocalTime(newEndOf(p, target, reference))),
                  time_zone |-> "local", items |-> <<>>, val |-> ""])

\* the date branch (value.type === 'date' && value.date)
ProjectDate(p, target, reference) ==
    IF InvalidRange(p, target, reference)
    THEN [Skipped(p) EXCEPT !.warn = TRUE]
    ELSE Emitted([key |-> p.key, tag |-> "date",
                  start |-> toISOString(utcKeepLocalTime(newStartOf(p, target, reference))),
                  end |-> toISOString(utcKeepLocalTime(newEndOf(p, target, reference))),
                  time_zone |-> "local", items |-> <<>>, val |-> ""])

\* a type with no branch, sent as it stands
ProjectOther_PassThrough(p) == Emitted(Entry(p.key, p.type, p.items, p.val))

\* a type with no branch: nothing is assigned
ProjectOther(p) == Skipped(p)

ProjectProperty(p, target, reference) ==
    CASE p.type = "date" /\ p.date.present -> ProjectDate(p, target, reference)
      [] p.type = "title" -> Emitted(Entry(p.key, "title", <<>>, p.val))
      [] p.type = "rich_text" -> Emitted(Entry(p.key, "rich_text", <<>>, p.val))
      [] p.type = "number" -> Emitted(Entry(p.key, "number", <<>>, p.val))
      [] p.type = "select" -> Emitted(Entry(p.key, "select", ChosenName(p.items), ""))
      [] p.type = "multi_select" ->
            Emitted(Entry(p.key, "multi_select", MapItems(p.items, OnlyName), ""))
      [] p.type = "checkbox" ->
            Emitted(Entry(p.key, "checkbox", <<>>, IF p.val = "" THEN "false" ELSE p.val))
      [] p.type = "url" -> Emitted(Entry(p.key, "url", <<>>, p.val))
      [] p.type = "email" -> Emitted(Entry(p.key, "email", <<>>, p.val))
      [] p.type = "phone_number" -> Emitted(Entry(p.key, "phone_number", <<>>, p.val))
      [] p.type = "relation" -> Emitted(Entry(p.key, "relation", MapItems(p.items, OnlyId), ""))
      [] p.type = "people" -> Emitted(Entry(p.key, "people", MapItems(p.items, OnlyId), ""))
      [] p.type = "files" -> Emitted(Entry(p.key, "files", MapItems(p.items, ProjectFile), ""))
      [] p.type = "status" -> Emitted(Entry(p.key, "status", ChosenName(p.items), ""))
      [] OTHER -> ProjectOther(p)

(* updatePropertiesForDate: [updated, warned]: the record (its entries in   *)
(* insertion order) and the keys a warning was logged for.                  *)
RECURSIVE updateFrom(_, _, _, _, _)
updateFrom(properties, i, target, reference, acc) ==
    IF i > Len(properties) THEN acc
    ELSE LET r == ProjectProperty(properties[i], target, reference)
             acc2 == [updated |-> IF r.emit THEN Append(acc.updated, r.entry) ELSE acc.updated,
                      warned |-> IF r.warn THEN Append(acc.warned, properties[i].key) ELSE acc.warned]
         IN IF r.stop THEN acc2 ELSE updateFrom(properties, i + 1, target, reference, acc2)

updatePropertiesForDate(properties, target, reference) ==
    updateFrom(properties, 1, target, reference, [updated |-> <<>>, warned |-> <<>>])

-----------------------------------------------------------------------------
(* Inputs *)

TzOffsets == {0 - 5 * MsPerHour, 0, 5 * MsPerHour + 30 * MsPerMinute}

TimesOfDay ==
    {TimeOfDay(0, 0, 0, 0), TimeOfDay(2, 0, 0, 0), TimeOfDay(9, 30, 0, 0),
     TimeOfDay(23, 59, 15, 250)}

\* the date strings a template bound is drawn from
DateStrings ==
    {DateTimeStr(d * MsPerDay + t) : d \in 1..MaxDay, t \in TimesOfDay}
        \cup {DateOnlyStr(d) : d \in 1..MaxDay}

NowMs == (MaxDay + 3) * MsPerDay + TimeOfDay(13, 17, 42, 7)

\* the positional date argument: absent (""), unparseable, or a date
NoArg == [k |-> "absent", v |-> 0]
BadDate == [k |-> "garbage", v |-> 0]
TargetArgs == {NoArg, DateOnlyStr(MaxDay + 2), DateOnlyStr(1)}

Template(title, properties) == [title |-> title, properties |-> properties]

\* parseTargetDate, for an argument that parses
parseTargetDate(dateStr) ==
    IF dateStr.k = "absent" THEN moment(DateTimeStr(now)) ELSE moment(dateStr)

-----------------------------------------------------------------------------
(* SpecDate: updatePropertiesForDate and combineDateTimeWithReference on    *)
(* one date property, for every start, end, target date, reference date and *)
(* time zone of the input sets.                                             *)

NoOut ==
    [updated |-> <<>>, warned |-> <<>>, newStart |-> InvalidMoment,
     newEnd |-> InvalidMoment, threw |-> FALSE]

\* a bound moment() can parse: an ISO date-time or a date; null and a
\* malformed string give an invalid moment
Parses(s) == s.k \in {"datetime", "date"}

\* the values a template bound is drawn from: the date strings, a malformed
\* string and, for the end, null
StartValues == DateStrings \cup {BadDate}
EndValues == DateStrings \cup {Null, BadDate}

\* getAllPages is not being followed query by query
IdleQuery ==
    /\ store = <<>>
    /\ hasMore = FALSE
    /\ startCursor = 0
    /\ fetched = <<>>
    /\ queries = <<>>

\* purge mode has not run
IdlePurge ==
    /\ database = <<>>
    /\ allPages = <<>>
    /\ pages = <<>>
    /\ deleted = 0
    /\ failed = 0

IdleRun ==
    /\ argv = [date |-> NoArg, day |-> "", init |-> FALSE, purge |-> FALSE,
               confirm |-> FALSE]
    /\ IdlePurge
    /\ IdleQuery
    /\ schema = <<>>
    /\ dayFilter = ""
    /\ sortedTemplates = <<>>
    /\ templatesToCreate = <<>>
    /\ idx = 0
    /\ created = 0
    /\ calls = <<>>
    /\ log = <<>>
    /\ exitCode = -1

InitDate ==
    /\ pc = "date_input"
    /\ tzOffset \in TzOffsets
    /\ now = NowMs
    /\ \E s \in StartValues, e \in EndValues :
          templates = <<Template("T", <<DateProp("When", s, e)>>)>>
    /\ \E a \in TargetArgs : targetDate = parseTargetDate(a)
    /\ \E r \in DateStrings : referenceDate = moment(r)
    /\ IdleRun
    /\ out = NoOut

DateApply ==
    /\ pc = "date_input"
    /\ pc' = "date_applied"
    /\ LET p == templates[1].properties[1]
           r == updatePropertiesForDate(templates[1].properties, targetDate, referenceDate)
       IN out' = [updated |-> r.updated, warned |-> r.warned,
                  newStart |-> newStartOf(p, targetDate, referenceDate),
                  newEnd |-> newEndOf(p, targetDate, referenceDate),
                  \* no statement of the loop throws: moment() of null or of
                  \* a malformed string returns an invalid moment
                  threw |-> FALSE]
    /\ UNCHANGED <<queryVars, purgeVars, argv, tzOffset, now, templates, schema, targetDate, dayFilter,
                   referenceDate, sortedTemplates, templatesToCreate, idx, created,
                   calls, log, exitCode>>

NextDate == DateApply

SpecDate == InitDate /\ [][NextDate]_vars

\* the calendar day (local) a moment falls on
LocalDay(m) == wall(m) \div MsPerDay

TheDateProp == templates[1].properties[1]

(* C1: for a date property with start and end both present, the recalculated *)
(* end minus the recalculated start equals the original end minus the        *)
(* original start: for the two moments combineDateTimeWithReference returns, *)
(* and for the start and end of the date value in the record when the        *)
(* property is emitted.                                                      *)
C1_DurationPreserved ==
    (pc = "date_applied" /\ Parses(TheDateProp.date.start)
                         /\ Parses(TheDateProp.date.end)) =>
        LET origStart == moment(TheDateProp.date.start)
            origEnd == moment(TheDateProp.date.end)
        IN /\ out.newEnd.valid /\ out.newStart.valid
           /\ out.newEnd.ms - out.newStart.ms = origEnd.ms - origStart.ms
           /\ Len(out.updated) = 1 =>
                 /\ out.updated[1].start.k = "datetime"
                 /\ out.updated[1].end.k = "datetime"
                 /\ out.updated[1].end.v - out.updated[1].start.v = origEnd.ms - origStart.ms

\* a range that spans midnight has been recalculated and emitted
C1_Witness ==
    /\ pc = "date_applied"
    /\ Parses(TheDateProp.date.start) /\ Parses(TheDateProp.date.end)
    /\ Len(out.updated) = 1
    /\ LocalDay(moment(TheDateProp.date.end)) > LocalDay(moment(TheDateProp.date.start))
    /\ LocalDay(moment(TheDateProp.date.start)) > LocalDay(referenceDate)

BoundAsClaimed(s, r) ==
    LET m == moment(s)
        k == LocalDay(m) - LocalDay(referenceDate)
    IN /\ r.valid
       /\ LocalDay(r) = LocalDay(targetDate) + k
       /\ hour(r) = hour(m)
       /\ minute(r) = minute(m)
       /\ second(r) = second(m)
       /\ millisecond(r) = millisecond(m)

(* C2: a bound whose calendar day is k days after the reference day is moved *)
(* to calendar day (target day + k), with the hour, minute, second and       *)
(* millisecond of the template bound.                                        *)
C2_DayOffsetAndTimeOfDay ==
    pc = "date_applied" =>
        /\ Parses(TheDateProp.date.start) =>
              BoundAsClaimed(TheDateProp.date.start, out.newStart)
        /\ Parses(TheDateProp.date.end) =>
              BoundAsClaimed(TheDateProp.date.end, out.newEnd)

\* a start two days after the reference day, with minutes, seconds and milliseconds
C2_Witness ==
    /\ pc = "date_applied"
    /\ Parses(TheDateProp.date.start)
    /\ LocalDay(moment(TheDateProp.date.start)) - LocalDay(referenceDate) = 2
    /\ minute(out.newStart) = 59
    /\ second(out.newStart) = 15
    /\ millisecond(out.newStart) = 250
    /\ LocalDay(out.newStart) = LocalDay(targetDate) + 2

(* C17: a date property with a start and no end (end null) is emitted with  *)
(* the recalculated start and with an absent (null) end: no end instant is  *)
(* made up.                                                                 *)
C17_NoEndStaysAbsent ==
    (pc = "date_applied" /\ Parses(TheDateProp.date.start)
                         /\ TheDateProp.date.end = Null) =>
        /\ Len(out.updated) = 1
        /\ out.warned = <<>>
        /\ out.updated[1].start = toISOString(utcKeepLocalTime(out.newStart))
        /\ out.updated[1].end = Null

(* C18: a malformed start or end makes updatePropertiesForDate raise an     *)
(* error: it does not return a record, with or without the property.        *)
C18_MalformedBoundRaises ==
    (pc = "date_applied" /\ (TheDateProp.date.start = BadDate
                              \/ TheDateProp.date.end = BadDate)) =>
        /\ out.threw
        /\ out.updated = <<>>

-----------------------------------------------------------------------------
(* sortTemplatesByStartTime *)

NoStart == [has |-> FALSE, t |-> 0]

RECURSIVE firstStartFrom(_, _)
firstStartFrom(properties, i) ==
    IF i > Len(properties) THEN NoStart
    ELSE LET prop == properties[i]
         IN IF prop.type = "date" /\ prop.date.present /\ prop.date.start.k # "null"
            THEN [has |-> TRUE, t |-> DateParse(prop.date.start)]
            ELSE firstStartFrom(properties, i + 1)

\* the start of the first date property that has one, as a Date; or null
getTemplateStartTime(template) == firstStartFrom(template.properties, 1)

compareStart_UndatedFirst(a, b) ==
    LET aStart == getTemplateStartTime(a)
        bStart == getTemplateStartTime(b)
    IN CASE ~aStart.has /\ ~bStart.has -> 0
         [] ~aStart.has -> 0 - 1
         [] ~bStart.has -> 1
         [] OTHER -> aStart.t - bStart.t

\* the comparator handed to sort
compareStart(a, b) ==
    LET aStart == getTemplateStartTime(a)
        bStart == getTemplateStartTime(b)
    IN CASE ~aStart.has /\ ~bStart.has -> 0
         [] ~aStart.has -> 1
         [] ~bStart.has -> 0 - 1
         [] OTHER -> aStart.t - bStart.t

\* an insertion that puts a template before the templates it compares equal to
RECURSIVE insertStable_BeforeEqual(_, _)
insertStable_BeforeEqual(sorted, x) ==
    IF Len(sorted) = 0 THEN <<x>>
    ELSE IF compareStart(sorted[Len(sorted)], x) < 0
         THEN Append(sorted, x)
         ELSE Append(insertStable_BeforeEqual(SubSeq(sorted, 1, Len(sorted) - 1), x),
                     sorted[Len(sorted)])

(* Array.prototype.sort is stable: with a consistent comparator its result *)
(* is the one of a stable insertion sort.                                  *)
RECURSIVE insertStable(_, _)
insertStable(sorted, x) ==
    IF Len(sorted) = 0 THEN <<x>>
    ELSE IF compareStart(sorted[Len(sorted)], x) <= 0
         THEN Append(sorted, x)
         ELSE Append(insertStable(SubSeq(sorted, 1, Len(sorted) - 1), x), sorted[Len(sorted)])

RECURSIVE sortFrom(_, _, _)
sortFrom(ts, i, acc) ==
    IF i > Len(ts) THEN acc ELSE sortFrom(ts, i + 1, insertStable(acc, ts[i]))

sortTemplatesByStartTime(ts) == sortFrom(ts, 1, <<>>)

-----------------------------------------------------------------------------
(* SpecSort: sortTemplatesByStartTime on every sequence of at most          *)
(* MaxSortLen templates of SortPool.                                        *)

SortPool ==
    {Template("A", <<Prop("Name", "title", "A"),
                     DateProp("When", DateTimeStr(MsPerDay + TimeOfDay(9, 30, 0, 0)),
                                      DateTimeStr(MsPerDay + TimeOfDay(10, 0, 0, 0)))>>),
     Template("B", <<DateProp("When", DateTimeStr(MsPerDay + TimeOfDay(9, 30, 0, 0)), Null),
                     Prop("Name", "title", "B")>>),
     Template("C", <<Prop("Name", "title", "C")>>),
     Template("D", <<Prop("Name", "title", "D"), Prop("When", "date", "")>>),
     Template("E", <<DateProp("Due", DateTimeStr(3 * MsPerDay), Null),
                     DateProp("When", DateTimeStr(MsPerDay + TimeOfDay(2, 0, 0, 0)), Null)>>),
     Template("F", <<DateProp("When", DateOnlyStr(2), Null)>>),
     Template("G", <<DateProp("When", DateTimeStr(2 * MsPerDay + TimeOfDay(2, 0, 0, 0)),
                                      DateTimeStr(2 * MsPerDay + TimeOfDay(3, 0, 0, 0)))>>)}

SeqsUpTo(S, n) == UNION {[1..k -> S] : k \in 0..n}

InitSort ==
    /\ pc = "sort_input"
    /\ tzOffset \in TzOffsets
    /\ now = NowMs
    /\ templates \in SeqsUpTo(SortPool, MaxSortLen)
    /\ targetDate = InvalidMoment
    /\ referenceDate = InvalidMoment
    /\ IdleRun
    /\ out = NoOut

SortApply ==
    /\ pc = "sort_input"
    /\ pc' = "sort_applied"
    /\ sortedTemplates' = sortTemplatesByStartTime(templates)
    /\ UNCHANGED <<queryVars, purgeVars, argv, tzOffset, now, templates, schema, targetDate, dayFilter,
                   referenceDate, templatesToCreate, idx, created, calls, log,
                   exitCode, out>>

NextSort == SortApply

SpecSort == InitSort /\ [][NextSort]_vars

Bijections(n) == {f \in [1..n -> 1..n] : \A i, j \in 1..n : i # j => f[i] # f[j]}

\* a sorts strictly before b by the key k(_): dated before undated, earlier before later
KeyBefore(ka, kb) == ka.has /\ (~kb.has \/ ka.t < kb.t)
KeySame(ka, kb) == (~ka.has /\ ~kb.has) \/ (ka.has /\ kb.has /\ ka.t = kb.t)

RECURSIVE earliestStartFrom(_, _, _)
earliestStartFrom(properties, i, acc) ==
    IF i > Len(properties) THEN acc
    ELSE LET prop == properties[i]
             here == DateParse(prop.date.start)
         IN IF prop.type = "date" /\ prop.date.present /\ prop.date.start.k # "null"
                 /\ (~acc.has \/ here < acc.t)
            THEN earliestStartFrom(properties, i + 1, [has |-> TRUE, t |-> here])
            ELSE earliestStartFrom(properties, i + 1, acc)

\* the earliest start among all the date properties of a template
EarliestStart(template) == earliestStartFrom(template.properties, 1, NoStart)

(* C10, as stated: the result is in ascending order of each template's     *)
(* earliest date-property start, undated templates last, equal keys in     *)
(* input order.                                                            *)
C10_SortedByEarliestStart ==
    pc = "sort_applied" =>
        \E f \in Bijections(Len(templates)) :
            /\ Len(sortedTemplates) = Len(templates)
            /\ \A i \in 1..Len(templates) : sortedTemplates[i] = templates[f[i]]
            /\ \A i, j \in 1..Len(templates) : i < j =>
                  LET ka == EarliestStart(templates[f[i]])
                      kb == EarliestStart(templates[f[j]])
                  IN KeyBefore(ka, kb) \/ (KeySame(ka, kb) /\ f[i] < f[j])

(* C10, amended: the result is a rearrangement of the input in ascending   *)
(* order of the start of each template's first date property that has a    *)
(* start (read as new Date reads it), templates with no such property      *)
(* last, and templates of equal key in their input order.                  *)
C10_SortedByFirstStart ==
    pc = "sort_applied" =>
        \E f \in Bijections(Len(templates)) :
            /\ Len(sortedTemplates) = Len(templates)
            /\ \A i \in 1..Len(templates) : sortedTemplates[i] = templates[f[i]]
            /\ \A i, j \in 1..Len(templates) : i < j =>
                  LET ka == getTemplateStartTime(templates[f[i]])
                      kb == getTemplateStartTime(templates[f[j]])
                  IN KeyBefore(ka, kb) \/ (KeySame(ka, kb) /\ f[i] < f[j])

\* an undated template given first, two dated ones with the same start after it
C10_Witness ==
    /\ pc = "sort_applied"
    /\ Len(templates) = 3
    /\ ~getTemplateStartTime(templates[1]).has
    /\ templates[2] # templates[3]
    /\ getTemplateStartTime(templates[2]).has
    /\ KeySame(getTemplateStartTime(templates[2]), getTemplateStartTime(templates[3]))
    /\ sortedTemplates = <<templates[2], templates[3], templates[1]>>

(* C25: sortTemplatesByStartTime is idempotent: sorting its own output gives *)
(* that output again, for every sequence of templates, with equal start     *)
(* times and undated templates among them.                                  *)
C25_SortIdempotent ==
    pc = "sort_applied" =>
        sortTemplatesByStartTime(sortedTemplates) = sortedTemplates

\* two different templates of equal start with an undated one between them
\* have been sorted, and the order has changed
C25_Witness ==
    /\ pc = "sort_applied"
    /\ Len(templates) = 3
    /\ ~getTemplateStartTime(templates[2]).has
    /\ templates[1] # templates[3]
    /\ getTemplateStartTime(templates[1]).has
    /\ KeySame(getTemplateStartTime(templates[1]), getTemplateStartTime(templates[3]))
    /\ sortedTemplates = <<templates[1], templates[3], templates[2]>>
    /\ sortTemplatesByStartTime(sortedTemplates) # templates

-----------------------------------------------------------------------------
(* findReferenceDate *)

\* the first date found is kept whatever comes after it
earlier_KeepFirst(candidate, earliest) ==
    IF ~earliest.valid THEN candidate ELSE earliest

earlier(candidate, earliest) ==
    IF ~earliest.valid \/ isBefore(candidate, earliest) THEN candidate ELSE earliest

RECURSIVE earliestInProps(_, _, _)
earliestInProps(properties, i, earliest) ==
    IF i > Len(properties) THEN earliest
    ELSE LET prop == properties[i]
             e1 == IF prop.type = "date" /\ prop.date.present /\ prop.date.start.k # "null"
                   THEN earlier(moment(prop.date.start), earliest) ELSE earliest
             e2 == IF prop.type = "date" /\ prop.date.present /\ prop.date.end.k # "null"
                   THEN earlier(moment(prop.date.end), e1) ELSE e1
         IN earliestInProps(properties, i + 1, e2)

RECURSIVE earliestInTemplates(_, _, _)
earliestInTemplates(ts, i, earliest) ==
    IF i > Len(ts) THEN earliest
    ELSE earliestInTemplates(ts, i + 1, earliestInProps(ts[i].properties, 1, earliest))

\* the earliest start or end of any date property, or the start of today
findReferenceDate(ts) ==
    LET earliest == earliestInTemplates(ts, 1, InvalidMoment)
    IN IF earliest.valid THEN earliest ELSE startOfDay(moment(DateTimeStr(now)))

-----------------------------------------------------------------------------
(* filterTemplatesByDay *)

IsDayKey(key) == toLowerCase(key) = "day"

\* the callback comparing the stored names without toLowerCase().trim()
RECURSIVE dayMatchFrom_Exact(_, _, _)
dayMatchFrom_Exact(properties, i, normalizedFilter) ==
    IF i > Len(properties) THEN FALSE
    ELSE LET prop == properties[i]
         IN IF IsDayKey(prop.key) /\ prop.type = "select"
                 /\ Len(prop.items) > 0 /\ prop.items[1].name # ""
            THEN prop.items[1].name = normalizedFilter
            ELSE IF IsDayKey(prop.key) /\ prop.type = "multi_select"
            THEN \E k \in 1..Len(prop.items) : prop.items[k].name = normalizedFilter
            ELSE dayMatchFrom_Exact(properties, i + 1, normalizedFilter)

\* the callback ending with "return true" for a template with no Day property
RECURSIVE dayMatchFrom_KeepNoDay(_, _, _)
dayMatchFrom_KeepNoDay(properties, i, normalizedFilter) ==
    IF i > Len(properties) THEN TRUE
    ELSE LET prop == properties[i]
         IN IF IsDayKey(prop.key) /\ prop.type = "select"
                 /\ Len(prop.items) > 0 /\ prop.items[1].name # ""
            THEN trim(toLowerCase(prop.items[1].name)) = normalizedFilter
            ELSE IF IsDayKey(prop.key) /\ prop.type = "multi_select"
            THEN \E k \in 1..Len(prop.items) :
                    trim(toLowerCase(prop.items[k].name)) = normalizedFilter
            ELSE dayMatchFrom_KeepNoDay(properties, i + 1, normalizedFilter)

RECURSIVE dayMatchFrom(_, _, _)
dayMatchFrom(properties, i, normalizedFilter) ==
    IF i > Len(properties) THEN FALSE
    ELSE LET prop == properties[i]
         IN IF IsDayKey(prop.key) /\ prop.type = "select"
                 /\ Len(prop.items) > 0 /\ prop.items[1].name # ""
            THEN trim(toLowerCase(prop.items[1].name)) = normalizedFilter
            ELSE IF IsDayKey(prop.key) /\ prop.type = "multi_select"
            THEN \E k \in 1..Len(prop.items) :
                    trim(toLowerCase(prop.items[k].name)) = normalizedFilter
            ELSE dayMatchFrom(properties, i + 1, normalizedFilter)

\* a filter that falls back to every template when none matches
filterTemplatesByDay_AllWhenNone(ts, filter) ==
    LET normalizedFilter == trim(toLowerCase(filter))
        Matches(template) == dayMatchFrom(template.properties, 1, normalizedFilter)
        kept == SelectSeq(ts, Matches)
    IN IF Len(kept) = 0 THEN ts ELSE kept

filterTemplatesByDay(ts, filter) ==
    LET normalizedFilter == trim(toLowerCase(filter))
        Matches(template) == dayMatchFrom(template.properties, 1, normalizedFilter)
    IN SelectSeq(ts, Matches)

-----------------------------------------------------------------------------
(* SpecFilter: filterTemplatesByDay on every sequence of at most            *)
(* MaxTemplates templates of FilterPool, for every filter of FilterValues.  *)
(* A template has at most one property named day, as the properties of a    *)
(* Notion database have distinct names.                                     *)

FilterPool ==
    {Template("F1", <<Prop("Name", "title", "F1"),
                      ItemsProp("Day", "select", <<Option("Monday", "opt-1", "blue")>>)>>),
     Template("F2", <<ItemsProp("DAY", "select", <<Option(" monday ", "opt-3", "red")>>)>>),
     Template("F3", <<ItemsProp("day", "multi_select",
                                <<Option("Friday", "opt-5", "red"),
                                  Option("MONDAY", "opt-4", "blue")>>)>>),
     Template("F4", <<ItemsProp("Day", "select", <<Option("Tuesday", "opt-2", "red")>>)>>),
     Template("F5", <<ItemsProp("Day", "select", <<>>), Prop("Name", "title", "F5")>>),
     Template("F6", <<Prop("Name", "title", "Monday")>>),
     Template("F7", <<Prop("Day", "rich_text", "Monday")>>),
     Template("F8", <<ItemsProp("Day", "multi_select", <<>>)>>),
     Template("F9", <<ItemsProp("Day", "multi_select",
                                <<Option("Tuesday", "opt-2", "red"),
                                  Option("FRIDAY", "opt-6", "red")>>)>>)}

FilterValues ==
    {"Monday", "monday", "MONDAY", " Monday ", " MONDAY ", "Monday ", "Friday",
     "Tuesday", "Default"}

InitFilter ==
    /\ pc = "filter_input"
    /\ tzOffset = 0
    /\ now = NowMs
    /\ templates = <<>>
    /\ schema = <<>>
    /\ targetDate = InvalidMoment
    /\ referenceDate = InvalidMoment
    /\ argv = [date |-> NoArg, day |-> "", init |-> FALSE, purge |-> FALSE,
               confirm |-> FALSE]
    /\ IdlePurge
    /\ IdleQuery
    /\ sortedTemplates \in SeqsUpTo(FilterPool, MaxTemplates)
    /\ dayFilter \in FilterValues
    /\ templatesToCreate = <<>>
    /\ idx = 0
    /\ created = 0
    /\ calls = <<>>
    /\ log = <<>>
    /\ exitCode = -1
    /\ out = NoOut

\* templatesToCreate = filterTemplatesByDay(sortedTemplates, dayFilter)
FilterApply ==
    /\ pc = "filter_input"
    /\ pc' = "filter_applied"
    /\ templatesToCreate' = filterTemplatesByDay(sortedTemplates, dayFilter)
    /\ UNCHANGED <<queryVars, purgeVars, argv, tzOffset, now, templates, schema, targetDate,
                   dayFilter, referenceDate, sortedTemplates, idx, created, calls, log,
                   exitCode, out>>

NextFilter == FilterApply

SpecFilter == InitFilter /\ [][NextFilter]_vars

(* The day a name or a filter value stands for, letter case and leading and *)
(* trailing blanks aside, listed name by name.                              *)
DayClass(s) ==
    CASE s \in {"Monday", "monday", "MONDAY", " Monday ", " monday ", " MONDAY ",
                "Monday ", "monday "} -> "monday"
      [] s \in {"Friday", "friday", "FRIDAY"} -> "friday"
      [] s \in {"Tuesday", "tuesday"} -> "tuesday"
      [] s \in {"Default", "default"} -> "default"
      [] OTHER -> s

\* the properties of a template named day, whatever the letter case
DayProps(template) ==
    {template.properties[i] :
        i \in {j \in 1..Len(template.properties) :
                  template.properties[j].key \in {"Day", "day", "DAY"}}}

\* the template has a select Day with a chosen option, or a multi_select Day, standing for f
MatchesDay(template, f) ==
    \E p \in DayProps(template) :
        \/ /\ p.type = "select"
           /\ Len(p.items) > 0
           /\ DayClass(p.items[1].name) = DayClass(f)
        \/ /\ p.type = "multi_select"
           /\ \E k \in 1..Len(p.items) : DayClass(p.items[k].name) = DayClass(f)

KeptBy(f) == SelectSeq(sortedTemplates, LAMBDA t : MatchesDay(t, f))

(* C11: the templates kept are those with a select Day whose name, or a     *)
(* multi_select Day one of whose names, equals the filter when letter case  *)
(* and leading and trailing blanks are set aside, in their order; and every *)
(* filter value that differs from the given one only in case and blanks     *)
(* selects the same templates.                                              *)
C11_FilterIgnoresCaseAndBlanks ==
    pc = "filter_applied" =>
        /\ templatesToCreate = KeptBy(dayFilter)
        /\ \A f \in FilterValues : DayClass(f) = DayClass(dayFilter) =>
              filterTemplatesByDay(sortedTemplates, f) = templatesToCreate

\* " MONDAY " keeps a multi_select Day holding "MONDAY" and a select DAY " monday "
C11_Witness ==
    /\ pc = "filter_applied"
    /\ dayFilter = " MONDAY "
    /\ Len(sortedTemplates) = 2
    /\ Len(templatesToCreate) = 2
    /\ templatesToCreate[1].title = "F3"
    /\ templatesToCreate[2].title = "F2"

\* no property named day is a select or a multi_select
NoDayChoice(template) ==
    \A p \in DayProps(template) : p.type \notin {"select", "multi_select"}

\* a select Day with no chosen option
UnchosenDay(template) ==
    \E p \in DayProps(template) :
        p.type = "select" /\ (Len(p.items) = 0 \/ p.items[1].name = "")

Kept(template) == \E k \in 1..Len(templatesToCreate) : templatesToCreate[k] = template

(* C19: a template with no select or multi_select property named day, a     *)
(* template whose select Day has no chosen option, and a template whose Day *)
(* value does not match the filter are all left out of the result; every    *)
(* template of the result has a Day property that matches the filter.       *)
C19_FilterExcludesUnmatched ==
    pc = "filter_applied" =>
        /\ \A k \in 1..Len(templatesToCreate) :
              /\ MatchesDay(templatesToCreate[k], dayFilter)
              /\ \E i \in 1..Len(sortedTemplates) : sortedTemplates[i] = templatesToCreate[k]
        /\ \A i \in 1..Len(sortedTemplates) :
              LET t == sortedTemplates[i]
              IN (NoDayChoice(t) \/ UnchosenDay(t) \/ ~MatchesDay(t, dayFilter)) => ~Kept(t)

\* a template with an unchosen select Day is dropped and the Monday template after it is kept
C19_Witness ==
    /\ pc = "filter_applied"
    /\ dayFilter = "Monday"
    /\ Len(sortedTemplates) = 2
    /\ UnchosenDay(sortedTemplates[1])
    /\ templatesToCreate = <<sortedTemplates[2]>>

-----------------------------------------------------------------------------
(* extractDayValues and ensureDayOptionsExist *)

Contains(seq, x) == \E i \in 1..Len(seq) : seq[i] = x

\* Set.add
addValue(values, x) == IF Contains(values, x) THEN values ELSE Append(values, x)

RECURSIVE addNames(_, _, _)
addNames(values, items, k) ==
    IF k > Len(items) THEN values
    ELSE addNames(IF items[k].name # "" THEN addValue(values, items[k].name) ELSE values,
                  items, k + 1)

RECURSIVE dayValuesInProps(_, _, _)
dayValuesInProps(properties, i, values) ==
    IF i > Len(properties) THEN values
    ELSE LET prop == properties[i]
             v1 == IF IsDayKey(prop.key) /\ prop.type = "select"
                        /\ Len(prop.items) > 0 /\ prop.items[1].name # ""
                   THEN addValue(values, prop.items[1].name) ELSE values
             v2 == IF IsDayKey(prop.key) /\ prop.type = "multi_select"
                   THEN addNames(v1, prop.items, 1) ELSE v1
         IN dayValuesInProps(properties, i + 1, v2)

RECURSIVE dayValuesInTemplates(_, _, _)
dayValuesInTemplates(ts, i, values) ==
    IF i > Len(ts) THEN values
    ELSE dayValuesInTemplates(ts, i + 1, dayValuesInProps(ts[i].properties, 1, values))

\* the distinct Day values, in the order they are first met
extractDayValues(ts) == dayValuesInTemplates(ts, 1, <<>>)

(* A property of the database schema: [name, type, options]. *)
SchemaProp(name, type, options) == [name |-> name, type |-> type, options |-> options]

RECURSIVE findDayFrom(_, _)
findDayFrom(properties, i) ==
    IF i > Len(properties) THEN 0
    ELSE IF toLowerCase(properties[i].name) = "day"
              /\ properties[i].type \in {"select", "multi_select"}
         THEN i
         ELSE findDayFrom(properties, i + 1)

\* the position in the schema of the Day property, 0 when there is none
findDayProperty(properties) == findDayFrom(properties, 1)

OptionNames(options) == {options[i].name : i \in 1..Len(options)}

missingOptions_All(dayValues, existingOptions) == dayValues

missingOptions(dayValues, existingOptions) ==
    LET Missing(value) == value \notin OptionNames(existingOptions)
    IN SelectSeq(dayValues, Missing)

newOptions(missing) == [i \in 1..Len(missing) |-> Option(missing[i], "", "default")]

allOptions_OnlyNew(existingOptions, missing) == newOptions(missing)

allOptions(existingOptions, missing) == existingOptions \o newOptions(missing)

-----------------------------------------------------------------------------
(* Spec: one run of the command in scheduled mode (index.ts main,           *)
(* runScheduledMode), for every collection of at most MaxTemplates          *)
(* templates of RunPool.                                                    *)

Nine30 == TimeOfDay(9, 30, 0, 0)

RunPool ==
    {Template("Standup",
        <<Prop("Name", "title", "Standup"),
          DateProp("When", DateTimeStr(MsPerDay + Nine30),
                           DateTimeStr(MsPerDay + TimeOfDay(10, 0, 0, 0))),
          ItemsProp("Day", "select", <<Option("Monday", "opt-1", "blue")>>),
          Prop("Calc", "formula", "1")>>),
     Template("Night",
        <<DateProp("When", DateTimeStr(MsPerDay + TimeOfDay(23, 59, 15, 250)),
                           DateTimeStr(2 * MsPerDay + TimeOfDay(2, 0, 0, 0))),
          ItemsProp("Day", "multi_select",
                    <<Option(" Monday ", "opt-7", "green"), Option("Friday", "opt-5", "red")>>),
          Prop("Name", "title", "Night")>>),
     Template("Inverted",
        <<Prop("Name", "title", "Inverted"),
          DateProp("When", DateTimeStr(2 * MsPerDay + Nine30),
                           DateTimeStr(2 * MsPerDay + TimeOfDay(2, 0, 0, 0))),
          Prop("Notes", "rich_text", "text"),
          ItemsProp("day", "select", <<Option("Default", "opt-0", "gray")>>),
          Prop("Created", "created_time", "t")>>),
     Template("Undated",
        <<Prop("Name", "title", "Undated"),
          Prop("Calc", "formula", "1"),
          Prop("Roll", "rollup", "2"),
          Prop("Created", "created_time", "t"),
          Prop("Author", "created_by", "u"),
          Prop("Edited", "last_edited_time", "t"),
          Prop("Editor", "last_edited_by", "u"),
          Prop("Serial", "unique_id", "7"),
          Prop("Done", "checkbox", ""),
          ItemsProp("Day", "select", <<>>),
          Prop("When", "date", "")>>),
     Template("DateOnly",
        <<DateProp("When", DateOnlyStr(2), Null),
          DateProp("Due", DateTimeStr(MsPerDay), DateTimeStr(MsPerDay + Nine30)),
          ItemsProp("Day", "select", <<Option("Tuesday", "opt-2", "red")>>),
          ItemsProp("Owner", "people", <<Item("Ann", "user-1", "", "person", "")>>),
          ItemsProp("Links", "relation", <<Item("", "page-1", "", "", "")>>),
          ItemsProp("Docs", "files", <<Item("a.pdf", "", "", "external", "https://a"),
                                       Item("b.pdf", "", "", "file", "https://b")>>),
          ItemsProp("State", "status", <<Option("Open", "st-1", "blue")>>),
          Prop("Site", "url", "https://c"),
          Prop("Mail", "email", "a@b"),
          Prop("Phone", "phone_number", "1"),
          Prop("Count", "number", "3")>>)}

SchemaPool ==
    {<<SchemaProp("Name", "title", <<>>), SchemaProp("When", "date", <<>>),
       SchemaProp("Day", "select",
                  <<Option("Monday", "opt-1", "blue"), Option("Tuesday", "opt-2", "red")>>)>>,
     <<SchemaProp("day", "multi_select", <<>>), SchemaProp("Name", "title", <<>>)>>,
     <<SchemaProp("Name", "title", <<>>), SchemaProp("When", "date", <<>>)>>,
     <<SchemaProp("Name", "title", <<>>), SchemaProp("Day", "rich_text", <<>>)>>}

\* --day: not given, or given with a value
DayArgs ==
    {[given |-> FALSE, v |-> ""], [given |-> TRUE, v |-> ""],
     [given |-> TRUE, v |-> "Monday"], [given |-> TRUE, v |-> "MONDAY"]}

RunTzOffsets == {0 - 5 * MsPerHour, 5 * MsPerHour + 30 * MsPerMinute}

RunTargetArgs == {NoArg, BadDate, DateOnlyStr(MaxDay + 2)}

(* A request to the remote store and its outcome:                          *)
(*   [op, db, tmpl, record, prop, kind, options, res]                       *)
(* tmpl is the position in templatesToCreate of the template a createPage  *)
(* is for; res is "pending", "ok" or "failed".                             *)
Call(op, db, tmpl, record, prop, kind, options, res) ==
    [op |-> op, db |-> db, tmpl |-> tmpl, record |-> record, prop |-> prop,
     kind |-> kind, options |-> options, res |-> res]
SimpleCall(op, db, res) == Call(op, db, 0, <<>>, "", "", <<>>, res)

Event(level, msg, key) == [level |-> level, msg |-> msg, key |-> key]

Resolve(cs, res) == [cs EXCEPT ![Len(cs)].res = res]

Init ==
    /\ pc = "main"
    /\ argv \in [date : RunTargetArgs, day : DayArgs, init : BOOLEAN, purge : {FALSE},
                 confirm : {FALSE}]
    /\ IdlePurge
    /\ IdleQuery
    /\ tzOffset \in RunTzOffsets
    /\ now = NowMs
    /\ templates \in SeqsUpTo(RunPool, MaxTemplates)
    /\ schema \in SchemaPool
    /\ targetDate = InvalidMoment
    /\ dayFilter = ""
    /\ referenceDate = InvalidMoment
    /\ sortedTemplates = <<>>
    /\ templatesToCreate = <<>>
    /\ idx = 0
    /\ created = 0
    /\ calls = <<>>
    /\ log = <<>>
    /\ exitCode = -1
    /\ out = NoOut

\* main's catch: log the error and process.exit(1)
Catch(events) ==
    /\ log' = log \o events \o <<Event("error", "Error", "")>>
    /\ exitCode' = 1
    /\ pc' = "exit"

\* main up to the mode switch: argv is parsed, --day defaults to 'Default'
Main ==
    /\ pc = "main"
    /\ dayFilter' = IF argv.day.given THEN argv.day.v ELSE "Default"
    /\ pc' = IF argv.purge THEN "purge" ELSE IF argv.init THEN "init" ELSE "parse"
    /\ UNCHANGED <<queryVars, purgeVars, argv, tzOffset, now, templates, schema, targetDate, referenceDate,
                   sortedTemplates, templatesToCreate, idx, created, calls, log,
                   exitCode, out>>

\* runInitMode: the schema and the pages of the templates database are fetched and saved
RunInitMode ==
    /\ pc = "init"
    /\ calls' = calls \o <<SimpleCall("getDatabaseSchema", "templates", "ok"),
                          SimpleCall("getAllPages", "templates", "ok")>>
    /\ log' = log \o <<Event("info", "Running init mode...", ""),
                       Event("info", "Init mode completed successfully!", "")>>
    /\ pc' = "parse"
    /\ UNCHANGED <<queryVars, purgeVars, argv, tzOffset, now, templates, schema, targetDate, dayFilter,
                   referenceDate, sortedTemplates, templatesToCreate, idx, created,
                   exitCode, out>>

\* runInitMode when one of its two requests is rejected
RunInitModeFails ==
    /\ pc = "init"
    /\ \/ calls' = Append(calls, SimpleCall("getDatabaseSchema", "templates", "failed"))
       \/ calls' = calls \o <<SimpleCall("getDatabaseSchema", "templates", "ok"),
                             SimpleCall("getAllPages", "templates", "failed")>>
    /\ Catch(<<Event("info", "Running init mode...", "")>>)
    /\ UNCHANGED <<queryVars, purgeVars, argv, tzOffset, now, templates, schema, targetDate, dayFilter,
                   referenceDate, sortedTemplates, templatesToCreate, idx, created, out>>

\* parseTargetDate falling back to today for an argument that does not parse
ParseTarget_TodayWhenBad ==
    /\ pc = "parse"
    /\ targetDate' = IF argv.date.k = "garbage" THEN parseTargetDate(NoArg)
                      ELSE parseTargetDate(argv.date)
    /\ pc' = "scheduled"
    /\ UNCHANGED <<queryVars, purgeVars, argv, tzOffset, now, templates, schema, dayFilter,
                   referenceDate, sortedTemplates, templatesToCreate, idx, created, calls,
                   out, log, exitCode>>

\* const targetDate = parseTargetDate(argv.date)
ParseTarget ==
    /\ pc = "parse"
    /\ IF argv.date.k = "garbage"
       THEN /\ Catch(<<>>)
            /\ UNCHANGED targetDate
       ELSE /\ targetDate' = parseTargetDate(argv.date)
            /\ pc' = "scheduled"
            /\ UNCHANGED <<log, exitCode>>
    /\ UNCHANGED <<queryVars, purgeVars, argv, tzOffset, now, templates, schema, dayFilter, referenceDate,
                   sortedTemplates, templatesToCreate, idx, created, calls, out>>

\* runScheduledMode with the reference date resolved from the filtered templates
LoadSortFilter_ReferenceAfterFilter ==
    /\ pc = "scheduled"
    /\ IF Len(templates) = 0
       THEN /\ Catch(<<Event("info", "Running scheduled mode...", "")>>)
            /\ UNCHANGED <<referenceDate, sortedTemplates, templatesToCreate>>
       ELSE LET sorted == sortTemplatesByStartTime(templates)
                toCreate == IF dayFilter # "" THEN filterTemplatesByDay(sorted, dayFilter)
                            ELSE sorted
            IN /\ referenceDate' = findReferenceDate(toCreate)
               /\ sortedTemplates' = sorted
               /\ templatesToCreate' = toCreate
               /\ IF dayFilter # "" /\ Len(toCreate) = 0
                  THEN /\ log' = log \o
                            <<Event("info", "Running scheduled mode...", ""),
                              Event("warn", "No templates found matching the specified day filter.", ""),
                              Event("info", "Exiting without creating any time blocks.", "")>>
                       /\ exitCode' = 0
                       /\ pc' = "exit"
                  ELSE /\ log' = Append(log, Event("info", "Running scheduled mode...", ""))
                       /\ pc' = "ensure"
                       /\ UNCHANGED exitCode
    /\ UNCHANGED <<queryVars, purgeVars, argv, tzOffset, now, templates, schema, targetDate, dayFilter, idx,
                   created, calls, out>>

\* runScheduledMode with the loaded array sorted in place (no copy before sort)
LoadSortFilter_SortInPlace ==
    /\ pc = "scheduled"
    /\ IF Len(templates) = 0
       THEN /\ Catch(<<Event("info", "Running scheduled mode...", "")>>)
            /\ UNCHANGED <<referenceDate, sortedTemplates, templatesToCreate, templates>>
       ELSE LET sorted == sortTemplatesByStartTime(templates)
                toCreate == IF dayFilter # "" THEN filterTemplatesByDay(sorted, dayFilter)
                            ELSE sorted
            IN /\ referenceDate' = findReferenceDate(templates)
               /\ sortedTemplates' = sorted
               /\ templates' = sorted
               /\ templatesToCreate' = toCreate
               /\ IF dayFilter # "" /\ Len(toCreate) = 0
                  THEN /\ log' = log \o
                            <<Event("info", "Running scheduled mode...", ""),
                              Event("warn", "No templates found matching the specified day filter.", ""),
                              Event("info", "Exiting without creating any time blocks.", "")>>
                       /\ exitCode' = 0
                       /\ pc' = "exit"
                  ELSE /\ log' = Append(log, Event("info", "Running scheduled mode...", ""))
                       /\ pc' = "ensure"
                       /\ UNCHANGED exitCode
    /\ UNCHANGED <<queryVars, purgeVars, argv, tzOffset, now, schema, targetDate, dayFilter, idx,
                   created, calls, out>>

\* runScheduledMode without the check for an empty templates list
LoadSortFilter_EmptyIsFine ==
    /\ pc = "scheduled"
    /\ IF FALSE
       THEN /\ Catch(<<Event("info", "Running scheduled mode...", "")>>)
            /\ UNCHANGED <<referenceDate, sortedTemplates, templatesToCreate>>
       ELSE LET sorted == sortTemplatesByStartTime(templates)
                toCreate == IF dayFilter # "" THEN filterTemplatesByDay(sorted, dayFilter)
                            ELSE sorted
            IN /\ referenceDate' = findReferenceDate(templates)
               /\ sortedTemplates' = sorted
               /\ templatesToCreate' = toCreate
               /\ IF dayFilter # "" /\ Len(toCreate) = 0
                  THEN /\ log' = log \o
                            <<Event("info", "Running scheduled mode...", ""),
                              Event("warn", "No templates found matching the specified day filter.", ""),
                              Event("info", "Exiting without creating any time blocks.", "")>>
                       /\ exitCode' = 0
                       /\ pc' = "exit"
                  ELSE /\ log' = Append(log, Event("info", "Running scheduled mode...", ""))
                       /\ pc' = "ensure"
                       /\ UNCHANGED exitCode
    /\ UNCHANGED <<queryVars, purgeVars, argv, tzOffset, now, templates, schema, targetDate, dayFilter, idx,
                   created, calls, out>>

\* runScheduledMode up to the client: load, reference date, sort, filter
LoadSortFilter ==
    /\ pc = "scheduled"
    /\ IF Len(templates) = 0
       THEN /\ Catch(<<Event("info", "Running scheduled mode...", "")>>)
            /\ UNCHANGED <<referenceDate, sortedTemplates, templatesToCreate>>
       ELSE LET sorted == sortTemplatesByStartTime(templates)
                toCreate == IF dayFilter # "" THEN filterTemplatesByDay(sorted, dayFilter)
                            ELSE sorted
            IN /\ referenceDate' = findReferenceDate(templates)
               /\ sortedTemplates' = sorted
               /\ templatesToCreate' = toCreate
               /\ IF dayFilter # "" /\ Len(toCreate) = 0
                  THEN /\ log' = log \o
                            <<Event("info", "Running scheduled mode...", ""),
                              Event("warn", "No templates found matching the specified day filter.", ""),
                              Event("info", "Exiting without creating any time blocks.", "")>>
                       /\ exitCode' = 0
                       /\ pc' = "exit"
                  ELSE /\ log' = Append(log, Event("info", "Running scheduled mode...", ""))
                       /\ pc' = "ensure"
                       /\ UNCHANGED exitCode
    /\ UNCHANGED <<queryVars, purgeVars, argv, tzOffset, now, templates, schema, targetDate, dayFilter, idx,
                   created, calls, out>>

\* extractDayValues, then ensureDayOptionsExist up to its getDatabaseSchema request
EnsureStart ==
    /\ pc = "ensure"
    /\ IF Len(extractDayValues(templatesToCreate)) = 0
       THEN /\ pc' = "loop"
            /\ idx' = 1
            /\ UNCHANGED calls
       ELSE /\ calls' = Append(calls, SimpleCall("getDatabaseSchema", "timeBlocks", "pending"))
            /\ pc' = "awaitSchema"
            /\ UNCHANGED idx
    /\ UNCHANGED <<queryVars, purgeVars, argv, tzOffset, now, templates, schema, targetDate, dayFilter,
                   referenceDate, sortedTemplates, templatesToCreate, created, log,
                   exitCode, out>>

\* ensureDayOptionsExist throwing when the schema has no Day property
SchemaArrives_ThrowWhenNoDay ==
    /\ pc = "awaitSchema"
    /\ LET dayValues == extractDayValues(templatesToCreate)
           at == findDayProperty(schema)
           existingOptions == schema[at].options
           missing == missingOptions(dayValues, existingOptions)
       IN IF at = 0
          THEN /\ calls' = Resolve(calls, "ok")
               /\ Catch(<<>>)
               /\ UNCHANGED idx
          ELSE IF Len(missing) = 0
          THEN /\ calls' = Resolve(calls, "ok")
               /\ pc' = "loop"
               /\ idx' = 1
               /\ UNCHANGED <<log, exitCode>>
          ELSE /\ calls' = Append(Resolve(calls, "ok"),
                                  Call("updateDatabaseSchema", "timeBlocks", 0, <<>>,
                                       schema[at].name, schema[at].type,
                                       allOptions(existingOptions, missing), "pending"))
               /\ pc' = "awaitUpdate"
               /\ UNCHANGED <<log, idx, exitCode>>
    /\ UNCHANGED <<queryVars, purgeVars, argv, tzOffset, now, templates, schema, targetDate, dayFilter,
                   referenceDate, sortedTemplates, templatesToCreate, created, out>>

\* ensureDayOptionsExist from the schema's arrival to its return or its update request
SchemaArrives ==
    /\ pc = "awaitSchema"
    /\ LET dayValues == extractDayValues(templatesToCreate)
           at == findDayProperty(schema)
           existingOptions == schema[at].options
           missing == missingOptions(dayValues, existingOptions)
       IN IF at = 0
          THEN /\ calls' = Resolve(calls, "ok")
               /\ log' = log \o
                    <<Event("warn", "No \"Day\" select/multi_select property found in database schema.", ""),
                      Event("warn", "Day values in templates will be skipped.", "")>>
               /\ pc' = "loop"
               /\ idx' = 1
          ELSE IF Len(missing) = 0
          THEN /\ calls' = Resolve(calls, "ok")
               /\ pc' = "loop"
               /\ idx' = 1
               /\ UNCHANGED log
          ELSE /\ calls' = Append(Resolve(calls, "ok"),
                                  Call("updateDatabaseSchema", "timeBlocks", 0, <<>>,
                                       schema[at].name, schema[at].type,
                                       allOptions(existingOptions, missing), "pending"))
               /\ pc' = "awaitUpdate"
               /\ UNCHANGED <<log, idx>>
    /\ UNCHANGED <<queryVars, purgeVars, argv, tzOffset, now, templates, schema, targetDate, dayFilter,
                   referenceDate, sortedTemplates, templatesToCreate, created,
                   exitCode, out>>

\* getDatabaseSchema is rejected: the error leaves runScheduledMode
SchemaFails ==
    /\ pc = "awaitSchema"
    /\ calls' = Resolve(calls, "failed")
    /\ Catch(<<>>)
    /\ UNCHANGED <<queryVars, purgeVars, argv, tzOffset, now, templates, schema, targetDate, dayFilter,
                   referenceDate, sortedTemplates, templatesToCreate, idx, created, out>>

\* updateDatabaseSchema returns: ensureDayOptionsExist returns, the loop starts
UpdateReturns ==
    /\ pc = "awaitUpdate"
    /\ calls' = Resolve(calls, "ok")
    /\ pc' = "loop"
    /\ idx' = 1
    /\ UNCHANGED <<queryVars, purgeVars, argv, tzOffset, now, templates, schema, targetDate, dayFilter,
                   referenceDate, sortedTemplates, templatesToCreate, created, log,
                   exitCode, out>>

UpdateFails ==
    /\ pc = "awaitUpdate"
    /\ calls' = Resolve(calls, "failed")
    /\ Catch(<<>>)
    /\ UNCHANGED <<queryVars, purgeVars, argv, tzOffset, now, templates, schema, targetDate, dayFilter,
                   referenceDate, sortedTemplates, templatesToCreate, idx, created, out>>

InvalidRangeWarnings(keys) ==
    [i \in 1..Len(keys) |-> Event("warn", "Invalid date range detected for property", keys[i])]

\* the head of the for loop: the next template is projected and its createPage is sent,
\* or the loop is over and the summary is logged
LoopNext ==
    /\ pc = "loop"
    /\ IF idx <= Len(templatesToCreate)
       THEN LET r == updatePropertiesForDate(templatesToCreate[idx].properties,
                                             targetDate, referenceDate)
            IN /\ log' = log \o InvalidRangeWarnings(r.warned)
               /\ calls' = Append(calls, Call("createPage", "timeBlocks", idx, r.updated,
                                              "", "", <<>>, "pending"))
               /\ pc' = "awaitCreate"
               /\ UNCHANGED exitCode
       ELSE /\ log' = Append(log, Event("info", "Created time blocks", ""))
            /\ exitCode' = 0
            /\ pc' = "exit"
            /\ UNCHANGED calls
    /\ UNCHANGED <<queryVars, purgeVars, argv, tzOffset, now, templates, schema, targetDate, dayFilter,
                   referenceDate, sortedTemplates, templatesToCreate, idx, created, out>>

\* createPage returns and the loop goes straight to the next template
CreateReturns_NoDelay ==
    /\ pc = "awaitCreate"
    /\ calls' = Resolve(calls, "ok")
    /\ created' = created + 1
    /\ idx' = idx + 1
    /\ pc' = "loop"
    /\ UNCHANGED <<queryVars, purgeVars, argv, tzOffset, now, templates, schema, targetDate, dayFilter,
                   referenceDate, sortedTemplates, templatesToCreate, log, exitCode, out>>

\* createPage returns: created++
CreateReturns ==
    /\ pc = "awaitCreate"
    /\ calls' = Resolve(calls, "ok")
    /\ created' = created + 1
    /\ pc' = "delay"
    /\ UNCHANGED <<queryVars, purgeVars, argv, tzOffset, now, templates, schema, targetDate, dayFilter,
                   referenceDate, sortedTemplates, templatesToCreate, idx, log,
                   exitCode, out>>

\* createPage is rejected: nothing in the loop catches the error
CreateFails ==
    /\ pc = "awaitCreate"
    /\ calls' = Resolve(calls, "failed")
    /\ Catch(<<>>)
    /\ UNCHANGED <<queryVars, purgeVars, argv, tzOffset, now, templates, schema, targetDate, dayFilter,
                   referenceDate, sortedTemplates, templatesToCreate, idx, created, out>>

DelayMs == 350

\* await delay(350), then the next iteration
Delay ==
    /\ pc = "delay"
    /\ now' = now + DelayMs
    /\ idx' = idx + 1
    /\ pc' = "loop"
    /\ UNCHANGED <<queryVars, purgeVars, argv, tzOffset, templates, schema, targetDate, dayFilter,
                   referenceDate, sortedTemplates, templatesToCreate, created, calls,
                   log, exitCode, out>>

Next ==
    \/ Main
    \/ RunInitMode
    \/ RunInitModeFails
    \/ ParseTarget
    \/ LoadSortFilter
    \/ EnsureStart
    \/ SchemaArrives
    \/ SchemaFails
    \/ UpdateReturns
    \/ UpdateFails
    \/ LoopNext
    \/ CreateReturns
    \/ CreateFails
    \/ Delay

Spec == Init /\ [][Next]_vars

-----------------------------------------------------------------------------
(* SpecPurge: one run of the command with --purge (index.ts main,           *)
(* runPurgeMode), for every time blocks database of at most MaxPages pages  *)
(* of PagePool.  For a deletePage request tmpl is the position of the page  *)
(* in pages and prop is the page id.                                        *)

Page(id, properties) == [id |-> id, properties |-> properties]

PagePool ==
    {Page("page-1",
        <<Prop("Name", "title", "Standup"),
          DateProp("When", DateTimeStr((MaxDay + 2) * MsPerDay + TimeOfDay(9, 30, 0, 0)),
                           DateTimeStr((MaxDay + 2) * MsPerDay + TimeOfDay(10, 0, 0, 0)))>>),
     Page("page-2", <<DateProp("When", DateOnlyStr(MaxDay + 2), Null)>>),
     Page("page-3",
        <<DateProp("When", DateTimeStr((MaxDay + 3) * MsPerDay + TimeOfDay(2, 0, 0, 0)),
                           DateTimeStr((MaxDay + 3) * MsPerDay + TimeOfDay(9, 30, 0, 0)))>>),
     Page("page-4", <<Prop("Name", "title", "Undated"), Prop("When", "date", "")>>),
     Page("page-5",
        <<DateProp("Due", DateOnlyStr(1), Null),
          DateProp("When", DateTimeStr((MaxDay + 2) * MsPerDay + TimeOfDay(9, 30, 0, 0)), Null)>>),
     Page("page-6",
        <<Prop("Name", "title", "Elsewhere"),
          DateProp("When", DateTimeStr(MsPerDay + TimeOfDay(9, 30, 0, 0)), Null)>>)}

\* the sequences of at most n distinct elements of S
DistinctSeqsUpTo(S, n) ==
    {q \in SeqsUpTo(S, n) : \A i, j \in 1..Len(q) : i # j => q[i] # q[j]}

\* a.isSame(b)
isSame(a, b) == a.valid /\ b.valid /\ a.ms = b.ms

RECURSIVE startsOnFrom(_, _, _)
startsOnFrom(properties, i, targetDay) ==
    IF i > Len(properties) THEN FALSE
    ELSE LET prop == properties[i]
         IN IF prop.type = "date" /\ prop.date.present /\ prop.date.start.k # "null"
                 /\ isSame(startOfDay(moment(prop.date.start)), targetDay)
            THEN TRUE
            ELSE startsOnFrom(properties, i + 1, targetDay)

\* no filtering: every page is kept
filterPagesByDate_All(ps, target) == ps

\* the pages with a date property whose start falls on the day of targetDate
filterPagesByDate(ps, target) ==
    LET targetDay == startOfDay(target)
        OnDay(page) == startsOnFrom(page.properties, 1, targetDay)
    IN SelectSeq(ps, OnDay)

\* argv.date is given: targetDate is not undefined
HasTarget == argv.date.k # "absent"

\* what no step of purge mode changes
scheduledVars ==
    <<argv, tzOffset, templates, schema, dayFilter, referenceDate, sortedTemplates,
      templatesToCreate, created, out, queryVars>>

InitPurge ==
    /\ pc = "main"
    /\ argv \in [date : RunTargetArgs, day : {[given |-> FALSE, v |-> ""]}, init : {TRUE},
                 purge : {TRUE}, confirm : BOOLEAN]
    /\ tzOffset \in RunTzOffsets
    /\ now = NowMs
    /\ templates = <<>>
    /\ schema = <<>>
    /\ targetDate = InvalidMoment
    /\ dayFilter = ""
    /\ referenceDate = InvalidMoment
    /\ sortedTemplates = <<>>
    /\ templatesToCreate = <<>>
    /\ idx = 0
    /\ created = 0
    /\ calls = <<>>
    /\ log = <<>>
    /\ exitCode = -1
    /\ out = NoOut
    /\ database \in DistinctSeqsUpTo(PagePool, MaxPages)
    /\ allPages = <<>>
    /\ pages = <<>>
    /\ deleted = 0
    /\ failed = 0
    /\ IdleQuery

\* main, purge branch: targetDate = argv.date ? parseTargetDate(argv.date) : undefined
PurgeParse ==
    /\ pc = "purge"
    /\ IF argv.date.k = "garbage"
       THEN /\ Catch(<<>>)
            /\ UNCHANGED targetDate
       ELSE /\ targetDate' = IF HasTarget THEN parseTargetDate(argv.date) ELSE InvalidMoment
            /\ pc' = "purgeMode"
            /\ UNCHANGED <<log, exitCode>>
    /\ UNCHANGED <<scheduledVars, purgeVars, now, idx, calls>>

\* runPurgeMode without its confirmation check
PurgeStart_NoConfirmCheck ==
    /\ pc = "purgeMode"
    /\ log' = Append(log, Event("info", "Running purge mode...", ""))
    /\ calls' = Append(calls, SimpleCall("getAllPages", "timeBlocks", "pending"))
    /\ pc' = "awaitPages"
    /\ UNCHANGED exitCode
    /\ UNCHANGED <<scheduledVars, purgeVars, now, targetDate, idx>>

\* runPurgeMode up to its return without confirmation, or to its getAllPages request
PurgeStart ==
    /\ pc = "purgeMode"
    /\ IF ~argv.confirm
       THEN /\ log' = log \o
                 <<Event("info", "Running purge mode...", ""),
                   Event("warn", IF HasTarget THEN "WARNING: This will delete time blocks for the date!"
                                 ELSE "WARNING: This will delete ALL entries from the time blocks database!", ""),
                   Event("info", "To confirm, run with: --purge --confirm", ""),
                   Event("info", "Aborting...", "")>>
            /\ exitCode' = 0
            /\ pc' = "exit"
            /\ UNCHANGED calls
       ELSE /\ log' = Append(log, Event("info", "Running purge mode...", ""))
            /\ calls' = Append(calls, SimpleCall("getAllPages", "timeBlocks", "pending"))
            /\ pc' = "awaitPages"
            /\ UNCHANGED exitCode
    /\ UNCHANGED <<scheduledVars, purgeVars, now, targetDate, idx>>

\* getAllPages returns: the pages are filtered and the loop starts, or there is nothing to delete
AllPagesArrive ==
    /\ pc = "awaitPages"
    /\ calls' = Resolve(calls, "ok")
    /\ allPages' = database
    /\ LET selected == IF HasTarget THEN filterPagesByDate(database, targetDate) ELSE database
       IN IF Len(database) = 0
          THEN /\ log' = Append(log, Event("info", "No time blocks found. Database is already empty.", ""))
               /\ exitCode' = 0
               /\ pc' = "exit"
               /\ UNCHANGED <<pages, idx>>
          ELSE IF Len(selected) = 0
          THEN /\ log' = Append(log, Event("info", IF HasTarget THEN "No time blocks found for the date."
                                                   ELSE "No time blocks found. Database is already empty.", ""))
               /\ pages' = selected
               /\ exitCode' = 0
               /\ pc' = "exit"
               /\ UNCHANGED idx
          ELSE /\ pages' = selected
               /\ idx' = 1
               /\ pc' = "purgeLoop"
               /\ UNCHANGED <<log, exitCode>>
    /\ UNCHANGED <<scheduledVars, now, targetDate, database, deleted, failed>>

\* getAllPages is rejected: the error leaves runPurgeMode
AllPagesFails ==
    /\ pc = "awaitPages"
    /\ calls' = Resolve(calls, "failed")
    /\ Catch(<<>>)
    /\ UNCHANGED <<scheduledVars, purgeVars, now, targetDate, idx>>

\* the head of the for loop: the deletePage of the next page is sent, or the summary is logged
PurgeLoop ==
    /\ pc = "purgeLoop"
    /\ IF idx <= Len(pages)
       THEN /\ calls' = Append(calls, Call("deletePage", "timeBlocks", idx, <<>>,
                                           pages[idx].id, "", <<>>, "pending"))
            /\ pc' = "awaitDelete"
            /\ UNCHANGED <<log, exitCode>>
       ELSE /\ log' = Append(log, Event("info", "Purge complete", ""))
            /\ exitCode' = 0
            /\ pc' = "exit"
            /\ UNCHANGED calls
    /\ UNCHANGED <<scheduledVars, purgeVars, now, targetDate, idx>>

\* deletePage returns: deleted++, and a delay unless this was the last page
DeleteReturns ==
    /\ pc = "awaitDelete"
    /\ calls' = Resolve(calls, "ok")
    /\ database' = SelectSeq(database, LAMBDA p : p.id # pages[idx].id)
    /\ deleted' = deleted + 1
    /\ IF deleted + 1 + failed < Len(pages)
       THEN /\ pc' = "purgeDelay"
            /\ UNCHANGED idx
       ELSE /\ pc' = "purgeLoop"
            /\ idx' = idx + 1
    /\ UNCHANGED <<scheduledVars, now, targetDate, log, exitCode, allPages, pages, failed>>

\* deletePage is rejected and nothing catches it: the error leaves runPurgeMode
DeleteFails_Stops ==
    /\ pc = "awaitDelete"
    /\ calls' = Resolve(calls, "failed")
    /\ Catch(<<>>)
    /\ UNCHANGED <<scheduledVars, purgeVars, now, targetDate, idx>>

\* deletePage is rejected: the catch in the loop counts it and logs it
DeleteFails ==
    /\ pc = "awaitDelete"
    /\ calls' = Resolve(calls, "failed")
    /\ failed' = failed + 1
    /\ log' = log \o <<Event("error", "Failed to delete page", pages[idx].id),
                       Event("error", "Error", "")>>
    /\ idx' = idx + 1
    /\ pc' = "purgeLoop"
    /\ UNCHANGED <<scheduledVars, now, targetDate, exitCode, database, allPages, pages,
                   deleted>>

\* await delay(350), then the next iteration
PurgeDelay ==
    /\ pc = "purgeDelay"
    /\ now' = now + DelayMs
    /\ idx' = idx + 1
    /\ pc' = "purgeLoop"
    /\ UNCHANGED <<scheduledVars, purgeVars, targetDate, calls, log, exitCode>>

NextPurge ==
    \/ Main
    \/ PurgeParse
    \/ PurgeStart
    \/ AllPagesArrive
    \/ AllPagesFails
    \/ PurgeLoop
    \/ DeleteReturns
    \/ DeleteFails
    \/ PurgeDelay

SpecPurge == InitPurge /\ [][NextPurge]_vars

-----------------------------------------------------------------------------
(* SpecPages: NotionClientWrapper.getAllPages, query by query, against a    *)
(* store of at most MaxResultPages responses.  A cursor is a number: the    *)
(* query with start_cursor c is answered by store[c], the query without a   *)
(* cursor (0, undefined) by store[1]; a next_cursor of 0 is null.  The loop *)
(* is followed for at most MaxQueries queries.                              *)

Response(results, has_more, next_cursor) ==
    [results |-> results, has_more |-> has_more, next_cursor |-> next_cursor]

\* the records of the i-th result page: none, one or two
ResultsOf(i) == {<<>>, <<10 * i + 1>>, <<10 * i + 1, 10 * i + 2>>}

\* the stores of n result pages: each response announces more or not, and
\* gives the cursor of the next result page or null
Stores(n) ==
    {st \in [1..n -> [results : UNION {ResultsOf(i) : i \in 1..n},
                      has_more : BOOLEAN,
                      next_cursor : 0..n]] :
        \A i \in 1..n :
            /\ st[i].results \in ResultsOf(i)
            /\ st[i].next_cursor \in {0} \cup ({i + 1} \cap 1..n)}

\* the response of the store to a query
QueryResponse(cursor) == store[IF cursor = 0 THEN 1 ELSE cursor]

\* const pages = []; let hasMore = true; let startCursor = undefined
InitPages ==
    /\ pc = "query"
    /\ tzOffset = 0
    /\ now = NowMs
    /\ templates = <<>>
    /\ targetDate = InvalidMoment
    /\ referenceDate = InvalidMoment
    /\ argv = [date |-> NoArg, day |-> "", init |-> FALSE, purge |-> FALSE,
               confirm |-> FALSE]
    /\ IdlePurge
    /\ schema = <<>>
    /\ dayFilter = ""
    /\ sortedTemplates = <<>>
    /\ templatesToCreate = <<>>
    /\ idx = 0
    /\ created = 0
    /\ calls = <<>>
    /\ log = <<>>
    /\ exitCode = -1
    /\ out = NoOut
    /\ store \in UNION {Stores(n) : n \in 1..MaxResultPages}
    /\ hasMore = TRUE
    /\ startCursor = 0
    /\ fetched = <<>>
    /\ queries = <<>>

\* what no step of getAllPages changes
outsideQuery ==
    <<argv, tzOffset, templates, schema, targetDate, dayFilter, referenceDate,
      sortedTemplates, templatesToCreate, idx, created, calls, log, exitCode, out,
      purgeVars, store>>

\* while (hasMore): the next query is sent, or the array is returned
QueryLoop ==
    /\ pc = "query"
    /\ IF hasMore
       THEN /\ Len(queries) < MaxQueries
            /\ queries' = Append(queries, startCursor)
            /\ pc' = "awaitQuery"
       ELSE /\ pc' = "returned"
            /\ UNCHANGED queries
    /\ UNCHANGED <<outsideQuery, now, hasMore, startCursor, fetched>>

\* the response arrives: push the results, take has_more and next_cursor
QueryReturns ==
    /\ pc = "awaitQuery"
    /\ LET response == QueryResponse(startCursor)
       IN /\ fetched' = fetched \o response.results
          /\ hasMore' = response.has_more
          /\ startCursor' = response.next_cursor
          /\ pc' = IF response.has_more THEN "queryDelay" ELSE "query"
    /\ UNCHANGED <<outsideQuery, now, queries>>

\* the query is rejected: the error leaves getAllPages
QueryFails ==
    /\ pc = "awaitQuery"
    /\ pc' = "threw"
    /\ UNCHANGED <<outsideQuery, now, hasMore, startCursor, fetched, queries>>

\* if (hasMore) await this.delay(350)
QueryDelay ==
    /\ pc = "queryDelay"
    /\ now' = now + DelayMs
    /\ pc' = "query"
    /\ UNCHANGED <<outsideQuery, hasMore, startCursor, fetched, queries>>

NextPages ==
    \/ QueryLoop
    \/ QueryReturns
    \/ QueryFails
    \/ QueryDelay

SpecPages == InitPages /\ [][NextPages]_vars

\* the records of the result pages of the store, in page order
RECURSIVE RecordsFrom(_)
RecordsFrom(i) ==
    IF i > Len(store) THEN <<>> ELSE store[i].results \o RecordsFrom(i + 1)

(* C30, as stated: the first query has no cursor and each later query has   *)
(* the next_cursor of the response before it; the array holds the results   *)
(* of the responses in request order and no record twice, also after a      *)
(* response with has_more = true and a null next_cursor; and getAllPages     *)
(* returns at the first response with has_more = false, with each record of  *)
(* the result pages read up to there exactly once.                           *)
C30_EachRecordOnceInOrder ==
    /\ Len(queries) > 0 => queries[1] = 0
    /\ \A k \in 2..Len(queries) :
          queries[k] = QueryResponse(queries[k - 1]).next_cursor
    /\ \A i, j \in 1..Len(fetched) : i # j => fetched[i] # fetched[j]
    /\ Len(fetched) <= Len(RecordsFrom(1))
    /\ fetched = SubSeq(RecordsFrom(1), 1, Len(fetched))
    /\ pc = "returned" =>
          /\ ~QueryResponse(queries[Len(queries)]).has_more
          /\ \A k \in 1..(Len(queries) - 1) : QueryResponse(queries[k]).has_more

-----------------------------------------------------------------------------
(* Properties of a run *)

CreateCalls == SelectSeq(calls, LAMBDA c : c.op = "createPage")
UpdateCalls == SelectSeq(calls, LAMBDA c : c.op = "updateDatabaseSchema")
CreateAt(i) == calls[i].op = "createPage"
UpdateAt(i) == calls[i].op = "updateDatabaseSchema"

RecordKeys(record) == {record[i].key : i \in 1..Len(record)}
PropsOf(template) == {template.properties[i] : i \in 1..Len(template.properties)}

\* a date property whose recalculated start is the same as or after its recalculated end
Inverted(p) ==
    /\ p.type = "date" /\ p.date.present
    /\ newStartOf(p, targetDate, referenceDate).ms >= newEndOf(p, targetDate, referenceDate).ms

\* a property updatePropertiesForDate has a branch for, with a value to send
Writable(p) == p.type \in SupportedTypes /\ (p.type = "date" => p.date.present)

WarnedFor(key) ==
    \E i \in 1..Len(log) : log[i].level = "warn" /\ log[i].key = key

(* C3: when the recalculated start of a date property is the same as or     *)
(* after its recalculated end, the property is left out of the record and   *)
(* a warning is logged, every other writable property of the template is    *)
(* still in the record, and the createPage of the template is still sent:   *)
(* the create calls sent so far are those of templates 1..idx, one each.    *)
C3_InvalidRangeDropsOnlyThatProperty ==
    /\ \A i \in 1..Len(calls) : CreateAt(i) =>
          \A p \in PropsOf(templatesToCreate[calls[i].tmpl]) :
              /\ Inverted(p) => (p.key \notin RecordKeys(calls[i].record) /\ WarnedFor(p.key))
              /\ (Writable(p) /\ ~Inverted(p)) => p.key \in RecordKeys(calls[i].record)
    /\ pc \in {"awaitCreate", "delay"} =>
          /\ Len(CreateCalls) = idx
          /\ \A k \in 1..idx : CreateCalls[k].tmpl = k

\* the create call of a template with an inverted range has been sent, with other properties
C3_Witness ==
    \E i \in 1..Len(calls) :
        /\ CreateAt(i)
        /\ \E p \in PropsOf(templatesToCreate[calls[i].tmpl]) :
              Inverted(p) /\ p.date.end.k # "null"
        /\ Len(calls[i].record) >= 3
        /\ calls[i].tmpl = 2

(* C4, as stated: when a createPage fails the driver goes on, so at the    *)
(* end of the run every surviving template has been attempted once and the *)
(* summary has been logged.                                                *)
C4_ContinuesAfterFailedCreate ==
    (pc = "exit" /\ \E i \in 1..Len(calls) : CreateAt(i) /\ calls[i].res = "failed") =>
        /\ Len(CreateCalls) = Len(templatesToCreate)
        /\ \E i \in 1..Len(log) : log[i].msg = "Created time blocks"

\* the Day values of the surviving templates
DayValueSet ==
    {it.name : it \in UNION {
        {p.items[k] : k \in 1..Len(p.items)} :
            p \in {q \in UNION {PropsOf(templatesToCreate[i]) : i \in 1..Len(templatesToCreate)} :
                      IsDayKey(q.key) /\ q.type \in {"select", "multi_select"}}}} \ {""}

\* the Day select / multi_select properties of the destination schema
SchemaDayProps ==
    {schema[i] : i \in {j \in 1..Len(schema) :
        toLowerCase(schema[j].name) = "day" /\ schema[j].type \in {"select", "multi_select"}}}

NeedsSchemaUpdate ==
    \E d \in SchemaDayProps : \E v \in DayValueSet : v \notin OptionNames(d.options)

\* ensureDayOptionsExist has returned
PastEnsure == pc \in {"loop", "awaitCreate", "delay"} \/ Len(CreateCalls) > 0

(* C5: at most one updateDatabaseSchema call is sent; it is sent exactly    *)
(* when the destination schema has a Day select/multi_select property and  *)
(* some Day value of the surviving templates is not among its option names; *)
(* and it has returned before the first createPage call is sent.            *)
C5_OneSchemaUpdateBeforeCreates ==
    /\ Len(UpdateCalls) <= 1
    /\ Len(UpdateCalls) = 1 => NeedsSchemaUpdate
    /\ (PastEnsure /\ NeedsSchemaUpdate) => Len(UpdateCalls) = 1
    /\ \A i, j \in 1..Len(calls) :
          (UpdateAt(i) /\ CreateAt(j)) => (i < j /\ calls[i].res = "ok")

\* a schema update has returned and a createPage has been sent after it
C5_Witness ==
    \E i, j \in 1..Len(calls) : UpdateAt(i) /\ CreateAt(j) /\ i < j

(* C6: the options of the schema update are the existing options of the    *)
(* destination Day property, unchanged and in their order, followed by one *)
(* new option for each missing Day value: no existing name is added again  *)
(* and no new name twice.                                                  *)
C6_UpdateIsAdditive ==
    \A i \in 1..Len(calls) : UpdateAt(i) =>
        \E d \in SchemaDayProps :
            LET sent == calls[i].options
                n == Len(d.options)
                added == {sent[k].name : k \in (n + 1)..Len(sent)}
            IN /\ calls[i].prop = d.name
               /\ calls[i].kind = d.type
               /\ Len(sent) > n
               /\ SubSeq(sent, 1, n) = d.options
               /\ added = DayValueSet \ OptionNames(d.options)
               /\ Cardinality(added) = Len(sent) - n
               /\ \A k \in (n + 1)..Len(sent) : sent[k] = Option(sent[k].name, "", "default")

\* an update that keeps two existing options and adds two
C6_Witness ==
    \E i \in 1..Len(calls) :
        /\ UpdateAt(i)
        /\ Len(calls[i].options) = 4
        /\ calls[i].options[1].id = "opt-1"
        /\ calls[i].options[4].color = "default"

TypeOfKey(template, key) == {p.type : p \in {q \in PropsOf(template) : q.key = key}}

(* C7: no property of type formula, rollup, created_time, created_by,      *)
(* last_edited_time or last_edited_by, nor of any type outside the         *)
(* supported set, is a key of a record sent to createPage.                 *)
C7_NoReadOnlyPropertyInRecord ==
    \A i \in 1..Len(calls) : CreateAt(i) =>
        \A k \in 1..Len(calls[i].record) :
            /\ TypeOfKey(templatesToCreate[calls[i].tmpl], calls[i].record[k].key)
                  \subseteq SupportedTypes
            /\ TypeOfKey(templatesToCreate[calls[i].tmpl], calls[i].record[k].key)
                  \cap ReadOnlyTypes = {}
            /\ calls[i].record[k].tag \in SupportedTypes

\* the record of a template that has read-only and unsupported properties has been sent
C7_Witness ==
    \E i \in 1..Len(calls) :
        /\ CreateAt(i)
        /\ Len(calls[i].record) >= 2
        /\ \E p \in PropsOf(templatesToCreate[calls[i].tmpl]) : p.type \in ReadOnlyTypes
        /\ \E p \in PropsOf(templatesToCreate[calls[i].tmpl]) :
              p.type \notin SupportedTypes \cup ReadOnlyTypes

(* C8, as stated: a run without --day applies no filter and sends one      *)
(* createPage for every loaded template.                                   *)
C8_NoDayOptionCreatesAll ==
    (pc = "exit" /\ exitCode = 0 /\ ~argv.day.given) =>
        /\ templatesToCreate = sortedTemplates
        /\ Len(CreateCalls) = Len(templates)

\* f is strictly increasing on 1..n
Increasing(f, n) == \A a, b \in 1..n : a < b => f[a] < f[b]

(* C9, as stated: the createPage calls are sent one at a time, one for     *)
(* each surviving template, in the order of the sorted-then-filtered list, *)
(* and the filter keeps the order of the sort.                             *)
C9_OneCreatePerSurvivorInOrder ==
    /\ \A i \in 1..Len(calls) : calls[i].res = "pending" => i = Len(calls)
    /\ \A k \in 1..Len(CreateCalls) : CreateCalls[k].tmpl = k
    /\ (pc = "exit" /\ Len(CreateCalls) > 0) => Len(CreateCalls) = Len(templatesToCreate)
    /\ Len(CreateCalls) > 0 =>
          \E f \in [1..Len(templatesToCreate) -> 1..Len(sortedTemplates)] :
              /\ Increasing(f, Len(templatesToCreate))
              /\ \A k \in 1..Len(templatesToCreate) : templatesToCreate[k] = sortedTemplates[f[k]]

\* runScheduledMode is past its filter step
PastFilter == pc \notin {"main", "init", "parse", "scheduled", "purge"} /\ Len(sortedTemplates) > 0

\* the requests of runScheduledMode: those sent to the time blocks database
ScheduledCalls == SelectSeq(calls, LAMBDA c : c.db = "timeBlocks")

(* C12: when a day filter is given and no loaded template matches it,       *)
(* runScheduledMode has stopped right after the filter, without an error    *)
(* (exit code 0, the no-match warning logged), and has sent no request to   *)
(* the time blocks database: no getDatabaseSchema, no updateDatabaseSchema   *)
(* and no createPage.                                                       *)
C12_NoMatchNoRemoteCall ==
    (PastFilter /\ dayFilter # ""
        /\ \A i \in 1..Len(sortedTemplates) : ~MatchesDay(sortedTemplates[i], dayFilter)) =>
        /\ pc = "exit"
        /\ exitCode = 0
        /\ templatesToCreate = <<>>
        /\ ScheduledCalls = <<>>
        /\ ~argv.init => calls = <<>>
        /\ \E i \in 1..Len(log) :
              log[i] = Event("warn", "No templates found matching the specified day filter.", "")
        /\ \A i \in 1..Len(log) : log[i].level # "error"

\* --day Monday on two templates neither of which is a Monday one, without --init
C12_Witness ==
    /\ pc = "exit"
    /\ exitCode = 0
    /\ ~argv.init
    /\ dayFilter = "Monday"
    /\ Len(sortedTemplates) = 2
    /\ templatesToCreate = <<>>
    /\ calls = <<>>

\* the start and end strings present in the date properties of the loaded templates
BoundStrings ==
    UNION {{p.date.start, p.date.end} \ {Null} :
             p \in {q \in UNION {PropsOf(templates[i]) : i \in 1..Len(templates)} :
                       q.type = "date" /\ q.date.present}}

\* m is the earliest of the instants the bound strings stand for
EarliestBound(m) ==
    /\ \E s \in BoundStrings : m = moment(s)
    /\ \A s \in BoundStrings : m.ms <= moment(s).ms

\* the start of the day the run takes place on
StartOfToday == startOfDay(moment(DateTimeStr(NowMs)))

(* C13, as stated: the reference date is the midnight that starts the       *)
(* calendar day of the earliest start or end of any date property of any    *)
(* template, and the start of the current day when there is none.           *)
C13_ReferenceIsMidnightOfEarliest ==
    PastFilter =>
        IF BoundStrings = {} THEN referenceDate = StartOfToday
        ELSE \E s \in BoundStrings :
                /\ EarliestBound(moment(s))
                /\ referenceDate = startOfDay(moment(s))

(* C13, amended: findReferenceDate returns the earliest start or end        *)
(* instant itself, with its time of day; the midnight that starts its       *)
(* calendar day is what combineDateTimeWithReference takes from it.  When   *)
(* no date property has a start or an end it returns the start of the       *)
(* current day.                                                             *)
C13_ReferenceIsEarliestInstant ==
    PastFilter =>
        IF BoundStrings = {} THEN referenceDate = StartOfToday
        ELSE /\ EarliestBound(referenceDate)
             /\ \A s \in BoundStrings : LocalDay(startOfDay(referenceDate)) <= LocalDay(moment(s))
             /\ wall(startOfDay(referenceDate)) % MsPerDay = 0

\* the earliest instant is the end of a property of the second template, at 02:00
C13_Witness ==
    /\ PastFilter
    /\ Len(templates) = 2
    /\ templates[1].title = "Undated"
    /\ templates[2].title = "Inverted"
    /\ referenceDate = moment(DateTimeStr(2 * MsPerDay + TimeOfDay(2, 0, 0, 0)))

\* the delay steps taken so far: the clock moves only by them
Delays == (now - NowMs) \div DelayMs

(* C14: each createPage call is followed by a delay step before the next    *)
(* createPage call is sent: the calls sent are as many as the delays taken, *)
(* or one more, and while there is one more the process is waiting for that *)
(* call, about to take its delay, or has ended on its failure; it is never  *)
(* at the head of the loop, where the next call would be sent.              *)
C14_DelayAfterEachCreate ==
    /\ Delays <= Len(CreateCalls)
    /\ Len(CreateCalls) <= Delays + 1
    /\ Len(CreateCalls) = Delays + 1 => pc \in {"awaitCreate", "delay", "exit"}
    /\ (pc = "exit" /\ Len(CreateCalls) = Delays + 1) => calls[Len(calls)].res = "failed"

\* a second createPage has been sent, after the delay that followed the first
C14_Witness ==
    /\ Len(CreateCalls) = 2
    /\ Delays = 1
    /\ CreateCalls[1].res = "ok"
    /\ pc = "awaitCreate"

(* C15: when the target-date argument does not parse, parseTargetDate       *)
(* throws: no target date is ever set, the run ends with exit code 1 and an *)
(* error event as its last log event, and no createPage and no              *)
(* updateDatabaseSchema call is ever sent.                                  *)
C15_BadTargetDateAbortsBeforeWrites ==
    argv.date = BadDate =>
        /\ ~targetDate.valid
        /\ CreateCalls = <<>>
        /\ UpdateCalls = <<>>
        /\ ScheduledCalls = <<>>
        /\ pc \notin {"main", "init", "parse", "purge"} =>
              /\ pc = "exit"
              /\ exitCode = 1
              /\ log[Len(log)].level = "error"

\* init mode has run, then the unparseable date has ended the run
C15_Witness ==
    /\ argv.date = BadDate
    /\ argv.init
    /\ pc = "exit"
    /\ exitCode = 1
    /\ Len(calls) = 2
    /\ calls[2].res = "ok"

(* C16: a purge run without --confirm sends no request at all, with or      *)
(* without a target date: no getAllPages and no deletePage; runPurgeMode    *)
(* returns after its warning and the run ends with exit code 0, the pages   *)
(* of the database untouched.                                               *)
C16_UnconfirmedPurgeSendsNothing ==
    (argv.purge /\ ~argv.confirm) =>
        /\ calls = <<>>
        /\ allPages = <<>> /\ pages = <<>> /\ deleted = 0 /\ failed = 0
        /\ pc \notin {"main", "purge", "purgeMode"} => pc = "exit"
        /\ (pc = "exit" /\ argv.date # BadDate) =>
              /\ exitCode = 0
              /\ log[Len(log)] = Event("info", "Aborting...", "")

\* an unconfirmed purge for a target date has returned, three pages in the database
C16_Witness ==
    /\ argv.purge
    /\ ~argv.confirm
    /\ argv.date = DateOnlyStr(MaxDay + 2)
    /\ pc = "exit"
    /\ exitCode = 0
    /\ Len(database) = 3
    /\ targetDate.valid

\* the property of a template that a record entry was made from
SourceOf(template, entry) ==
    CHOOSE p \in PropsOf(template) : p.key = entry.key

NameOnly(it) == it.name # "" /\ it.id = "" /\ it.color = "" /\ it.type = "" /\ it.url = ""
IdOnly(it) == it.id # "" /\ it.name = "" /\ it.color = "" /\ it.type = "" /\ it.url = ""

(* C20: in the record sent for a template, a select or status entry holds   *)
(* at most the name of the chosen option, a multi_select entry holds the    *)
(* names of the template's options in order, a relation or people entry     *)
(* holds the ids of the template's references in order; no option id, no    *)
(* colour and no other field of the template's items is in the record.      *)
C20_OnlyNamesAndIds ==
    \A i \in 1..Len(calls) : CreateAt(i) =>
        \A k \in 1..Len(calls[i].record) :
            LET e == calls[i].record[k]
                p == SourceOf(templatesToCreate[calls[i].tmpl], e)
            IN /\ e.tag \in {"select", "status"} =>
                     /\ p.type = e.tag
                     /\ Len(e.items) <= 1
                     /\ Len(e.items) = 1 =>
                           NameOnly(e.items[1]) /\ e.items[1].name = p.items[1].name
                     /\ Len(e.items) = 0 => (p.items = <<>> \/ p.items[1].name = "")
               /\ e.tag = "multi_select" =>
                     /\ p.type = e.tag
                     /\ Len(e.items) = Len(p.items)
                     /\ \A j \in 1..Len(e.items) :
                           NameOnly(e.items[j]) /\ e.items[j].name = p.items[j].name
               /\ e.tag \in {"relation", "people"} =>
                     /\ p.type = e.tag
                     /\ Len(e.items) = Len(p.items)
                     /\ \A j \in 1..Len(e.items) :
                           IdOnly(e.items[j]) /\ e.items[j].id = p.items[j].id

\* records with a select, a status, a people and a relation entry, and with a
\* multi_select entry of two options, have been sent
C20_Witness ==
    /\ \E i \in 1..Len(calls) :
          /\ CreateAt(i)
          /\ \A t \in {"select", "status", "people", "relation"} :
                \E k \in 1..Len(calls[i].record) :
                    calls[i].record[k].tag = t /\ Len(calls[i].record[k].items) = 1
    /\ \E i \in 1..Len(calls) :
          /\ CreateAt(i)
          /\ \E k \in 1..Len(calls[i].record) :
                calls[i].record[k].tag = "multi_select" /\ Len(calls[i].record[k].items) = 2

\* the earliest of the instants of the start and end strings of the loaded templates
EarliestLoaded == CHOOSE m \in {moment(s) : s \in BoundStrings} : EarliestBound(m)

\* the calendar day of a date string of a record (sent as local time with a time zone)
SentDay(iso) == iso.v \div MsPerDay

\* the day a bound of a loaded template is to land on
LandingDay(s) ==
    LocalDay(targetDate) + (LocalDay(moment(s)) - LocalDay(EarliestLoaded))

(* C21: the reference date of a run is resolved once, from all the loaded   *)
(* templates, before sorting and filtering: it is the same from the filter   *)
(* step to the end of the run, and every date sent in a createPage record    *)
(* falls on the target day plus the day offset of the template's bound from  *)
(* the earliest instant of any loaded template, whether or not the filter    *)
(* kept the template that instant belongs to.                                *)
C21_ReferenceFromAllLoaded ==
    PastFilter =>
        /\ referenceDate = findReferenceDate(templates)
        /\ \A i \in 1..Len(calls) : CreateAt(i) =>
              \A k \in 1..Len(calls[i].record) :
                  LET e == calls[i].record[k]
                      p == SourceOf(templatesToCreate[calls[i].tmpl], e)
                  IN e.tag = "date" =>
                        /\ Parses(p.date.start) => SentDay(e.start) = LandingDay(p.date.start)
                        /\ Parses(p.date.end) => SentDay(e.end) = LandingDay(p.date.end)

\* a date has been sent for a template kept by the filter, one day after the
\* target day, the earliest instant being in a template the filter excluded
C21_Witness ==
    /\ PastFilter
    /\ dayFilter # ""
    /\ \A t \in 1..Len(templatesToCreate) :
          \A p \in PropsOf(templatesToCreate[t]) :
              (p.type = "date" /\ p.date.present) =>
                  /\ moment(p.date.start).ms > EarliestLoaded.ms
                  /\ p.date.end # Null => moment(p.date.end).ms > EarliestLoaded.ms
    /\ \E i \in 1..Len(calls) :
          /\ CreateAt(i)
          /\ \E k \in 1..Len(calls[i].record) :
                /\ calls[i].record[k].tag = "date"
                /\ SentDay(calls[i].record[k].start) = LocalDay(targetDate) + 1

\* the getDatabaseSchema request of ensureDayOptionsExist has been answered
SchemaRead ==
    \E i \in 1..Len(calls) :
        calls[i].op = "getDatabaseSchema" /\ calls[i].db = "timeBlocks" /\ calls[i].res = "ok"

(* C22: when the schema of the time blocks database has no select or         *)
(* multi_select property named Day, no updateDatabaseSchema request is ever  *)
(* sent and ensureDayOptionsExist raises no error: once the schema has been  *)
(* read the warning is logged and the create loop runs over the surviving    *)
(* templates in order; the run ends with exit code 0 and one createPage per  *)
(* surviving template, and it ends with an error only when a createPage      *)
(* request is itself rejected.                                               *)
C22_NoDayPropertyNoUpdateNoError ==
    (SchemaDayProps = {} /\ PastFilter) =>
        /\ UpdateCalls = <<>>
        /\ pc # "awaitUpdate"
        /\ SchemaRead =>
              /\ \E i \in 1..Len(log) : log[i].msg = "Day values in templates will be skipped."
              /\ pc \in {"loop", "awaitCreate", "delay", "exit"}
              /\ (pc = "exit" /\ exitCode = 1) =>
                    /\ calls[Len(calls)].op = "createPage"
                    /\ calls[Len(calls)].res = "failed"
        /\ \A k \in 1..Len(CreateCalls) : CreateCalls[k].tmpl = k
        /\ (pc = "exit" /\ exitCode = 0 /\ templatesToCreate # <<>>) =>
              /\ Len(CreateCalls) = Len(templatesToCreate)
              /\ \A k \in 1..Len(CreateCalls) : CreateCalls[k].res = "ok"

\* two templates with Day values have been created in a database that has a
\* Day property of another type only
C22_Witness ==
    /\ SchemaDayProps = {}
    /\ \E i \in 1..Len(schema) : toLowerCase(schema[i].name) = "day"
    /\ SchemaRead
    /\ DayValueSet # {}
    /\ pc = "exit"
    /\ exitCode = 0
    /\ Len(CreateCalls) = 2

\* a log event that names the key (a property name or a template title)
LoggedFor(key) == \E i \in 1..Len(log) : log[i].key = key

\* the titles of the templates a createPage was sent for
TitlesSent == {templatesToCreate[CreateCalls[k].tmpl].title : k \in 1..Len(CreateCalls)}

(* C23, as stated: every property of a template that is not in the record   *)
(* sent for it has a log event naming the property; at the end of the run    *)
(* every loaded template no createPage was sent for has a log event naming   *)
(* it; every rejected createPage has a log event naming its template.        *)
C23_EveryDropIsLogged ==
    /\ \A i \in 1..Len(calls) : CreateAt(i) =>
          \A p \in PropsOf(templatesToCreate[calls[i].tmpl]) :
              p.key \notin RecordKeys(calls[i].record) => LoggedFor(p.key)
    /\ (pc = "exit" /\ PastFilter) =>
          \A t \in 1..Len(templates) :
              templates[t].title \notin TitlesSent => LoggedFor(templates[t].title)
    /\ \A i \in 1..Len(calls) : (CreateAt(i) /\ calls[i].res = "failed") =>
          LoggedFor(templatesToCreate[calls[i].tmpl].title)

(* C24: a run never changes its inputs: no step changes the loaded template  *)
(* list (its order, its templates, their properties), and once the target    *)
(* date has been parsed no step changes it; the sorted and the filtered      *)
(* lists and the records are new values.                                     *)
C24_InputsNeverMutated ==
    [][/\ templates' = templates
       /\ targetDate.valid => targetDate' = targetDate]_vars

\* a run has ended after creating a page, the sort having reordered the
\* templates and the filter having removed one
C24_Witness ==
    /\ pc = "exit"
    /\ exitCode = 0
    /\ Len(templates) = 2
    /\ sortedTemplates = <<templates[2], templates[1]>>
    /\ templates[1] # templates[2]
    /\ Len(templatesToCreate) = 1
    /\ Len(CreateCalls) = 1
    /\ \E k \in 1..Len(CreateCalls[1].record) : CreateCalls[1].record[k].tag = "date"
    /\ targetDate.valid

\* the page has a date property whose start is on the calendar day of the target date
StartsOnTargetDay(page) ==
    \E p \in PropsOf(page) :
        /\ p.type = "date" /\ p.date.present /\ Parses(p.date.start)
        /\ LocalDay(moment(p.date.start)) = LocalDay(targetDate)

DeleteCalls == SelectSeq(calls, LAMBDA c : c.op = "deletePage")

\* the page of the database is still there
StillThere(page) == \E k \in 1..Len(database) : database[k] = page

(* C26: in a purge for a target date, every deletePage request is for a page *)
(* with a date property whose start is on the target calendar day; a page    *)
(* with no date property, or whose starts are all on other days, is never    *)
(* selected and stays in the database.                                       *)
C26_PurgeOnlyTargetDay ==
    (argv.purge /\ HasTarget) =>
        /\ \A i \in 1..Len(DeleteCalls) :
              \E k \in 1..Len(allPages) :
                  /\ allPages[k].id = DeleteCalls[i].prop
                  /\ StartsOnTargetDay(allPages[k])
        /\ \A k \in 1..Len(pages) : StartsOnTargetDay(pages[k])
        /\ \A k \in 1..Len(allPages) :
              ~StartsOnTargetDay(allPages[k]) => StillThere(allPages[k])

\* a purge for a day has ended: one page of three was deleted, an undated
\* page and a page of another day are still in the database
C26_Witness ==
    /\ argv.purge /\ HasTarget /\ targetDate.valid
    /\ pc = "exit"
    /\ Len(allPages) = 3
    /\ deleted = 1
    /\ Len(database) = 2
    /\ \E k \in 1..2 : \A p \in PropsOf(database[k]) : ~(p.type = "date" /\ p.date.present)
    /\ \E k \in 1..2 : \E p \in PropsOf(database[k]) : p.type = "date" /\ p.date.present

(* C27, as stated: a 350 ms delay step is taken between any two consecutive *)
(* requests of a run: when the n-th request is sent, n - 1 delays have been  *)
(* taken.                                                                   *)
C27_DelayBetweenRequests ==
    Len(calls) <= Delays + 1

\* runScheduledMode has been entered
InScheduledMode ==
    \E i \in 1..Len(log) : log[i] = Event("info", "Running scheduled mode...", "")

(* C28: when the templates file holds no template, runScheduledMode throws   *)
(* before it sorts, filters or sends anything: no request goes to the time   *)
(* blocks database, no createPage is sent, and the run ends with exit code 1 *)
(* and an error as its last log event.                                       *)
C28_NoTemplatesAbortsBeforeCalls ==
    templates = <<>> =>
        /\ ScheduledCalls = <<>>
        /\ CreateCalls = <<>>
        /\ sortedTemplates = <<>> /\ templatesToCreate = <<>>
        /\ pc \in {"main", "init", "parse", "scheduled", "exit"}
        /\ pc = "exit" =>
              /\ exitCode = 1
              /\ log[Len(log)].level = "error"
        /\ (InScheduledMode /\ ~argv.init) => calls = <<>>

\* a run without --init and with a date that parses has entered scheduled
\* mode on an empty templates file and has ended
C28_Witness ==
    /\ templates = <<>>
    /\ ~argv.init
    /\ targetDate.valid
    /\ InScheduledMode
    /\ pc = "exit"
    /\ exitCode = 1
    /\ calls = <<>>

\* the deletePage requests answered so far, by outcome
DeletesWith(res) == Len(SelectSeq(DeleteCalls, LAMBDA c : c.res = res))

(* C29: in a confirmed purge a rejected deletePage does not end the loop:    *)
(* the k-th deletePage request is for the k-th selected page, so each        *)
(* selected page is attempted once, in order; deleted and failed count the   *)
(* requests that returned and that were rejected; at the head of the loop    *)
(* deleted + failed is the number of pages attempted; and the run ends, with *)
(* exit code 0, only when deleted + failed is the number of selected pages.  *)
C29_PurgeCountsEveryAttempt ==
    (argv.purge /\ argv.confirm) =>
        /\ Len(DeleteCalls) <= Len(pages)
        /\ \A k \in 1..Len(DeleteCalls) :
              DeleteCalls[k].tmpl = k /\ DeleteCalls[k].prop = pages[k].id
        /\ deleted = DeletesWith("ok")
        /\ failed = DeletesWith("failed")
        /\ pc = "purgeLoop" =>
              /\ deleted + failed = Len(DeleteCalls)
              /\ deleted + failed = idx - 1
        /\ (pc = "exit" /\ pages # <<>>) =>
              /\ exitCode = 0
              /\ deleted + failed = Len(pages)
              /\ Len(DeleteCalls) = Len(pages)
              /\ log[Len(log)] = Event("info", "Purge complete", "")

\* a purge of three pages has ended: the first deletePage was rejected, the
\* other two pages were deleted after it
C29_Witness ==
    /\ argv.purge /\ argv.confirm
    /\ pc = "exit"
    /\ Len(pages) = 3
    /\ Len(DeleteCalls) = 3
    /\ DeleteCalls[1].res = "failed"
    /\ DeleteCalls[2].res = "ok"
    /\ DeleteCalls[3].res = "ok"
    /\ failed = 1
    /\ deleted = 2
    /\ Len(database) = 1

=============================================================================
